---- MODULE Spec2Model ----
(***************************************************************************)
(* The resilient request pipeline of the manga reader: the per-host        *)
(* connection manager (lib/connection-manager.ts), retryWithBackoff        *)
(* (lib/retry-with-backoff.ts) and the cache manager                       *)
(* (lib/cache-manager.ts).                                                 *)
(*                                                                         *)
(* JavaScript runs every handler to its next await without interruption,   *)
(* so one action is the code between two awaits.                           *)
(***************************************************************************)
EXTENDS Integers, Sequences, FiniteSets, TLC

\* ------------------------------------------------------------ bounds

\* Direct callers of acquireConnection (enough to fill a host and queue two).
NumCallers == 8

\* Concurrent retryWithBackoff calls.
NumCalls == 2

\* Largest maxRetries a caller passes.
MaxRetries == 4

\* Calls of set, and clock steps, in one run of the cache.
MaxSets == 2
MaxTicks == 2

\* Calls of apiRequest in one run.
MaxFetches == 2

\* The largest number of chapters the feed of one manga holds.
MaxItems == 250

\* The largest batch of manga a search returns.
MaxRecords == 3

\* Sweeps of cleanupExpiredCache in one run of the cache.
MaxSweeps == 1

\* Keys set, beyond the entries it starts with, in a run of a full cache.
ExtraKeys == 2

\* apiRequest calls in flight at the same time.
NumRequests == 2

\* ------------------------------------------------- program constants

\* connection-manager.ts:9
maxConnectionsPerHost == 6

\* ------------------------------------------------------------- sets

Callers == 1..NumCallers
Calls == (NumCallers + 1)..(NumCallers + NumCalls)
Clients == Callers \cup Calls
NoClient == 0

\* URLs the callers pass; two of them share a host.
Urls == {"https://api.mangadex.org/manga", "https://api.mangadex.org/chapter",
         "https://uploads.mangadex.org/covers"}

\* getHostFromUrl: new URL(url).host (every URL here parses).
getHostFromUrl(u) ==
    IF u = "https://uploads.mangadex.org/covers"
    THEN "uploads.mangadex.org" ELSE "api.mangadex.org"

Hosts == {getHostFromUrl(u) : u \in Urls}
NoHost == "none"

\* ------------------------------------------------------------ state

VARIABLES
    activeConnections,  \* Map host -> number; a missing key reads as 0 (`|| 0`)
    connectionQueue,    \* Map host -> array of waiter callbacks, by client
    http2FailedHosts,   \* Set of hosts flagged for HTTP/1.1
    slot,               \* per client: "none", "queued" (promise pending), "held"
    slotHost,           \* per client: the host its release closure captures
    spentHosts,         \* hosts of release functions that have already been called
    waitOrder,          \* history: per host, the clients waiting, in arrival order
    lastResumed         \* history: the waiter the last step resumed, or NoClient

connVars == <<activeConnections, connectionQueue, http2FailedHosts, slot, slotHost,
              spentHosts, waitOrder, lastResumed>>

\* One retryWithBackoff call per element of Calls.
VARIABLES
    config,            \* the merged options (line 44)
    url,               \* the url argument, or NoUrl
    workFailures,      \* the errors the call's fn can reject with
    pc,                \* where the call is: "off", "top", "acquiring", "running",
                       \* "sleepRate", "sleepBackoff", "returned", "thrown"
    attempt,           \* line 47
    useHttp1Fallback,  \* line 48
    hasRelease,        \* releaseConnection of the current attempt is defined
    lastError,         \* the error caught, while the call sleeps on it or once thrown
    sleepMs,           \* the setTimeout delay of the sleep in progress
    annotated,         \* the count written into the thrown error's message
    invocations,       \* history: times fn was called
    releaseCalls,      \* history: times the current attempt's release was called
    prevBackoff,       \* history: the last backoff delay slept in full
    rejected,          \* history: the error fn rejected with in the attempt being handled
    nOrdinary,         \* history: failures handled by lines 125-158
    nRate,             \* history: failures retried by lines 103-123
    nHttp2             \* history: failures retried by lines 84-101

callVars == <<config, url, workFailures, pc, attempt, useHttp1Fallback, hasRelease,
              lastError, sleepMs, annotated, invocations, releaseCalls, prevBackoff,
              rejected, nOrdinary, nRate, nHttp2>>


\* The cache manager.
VARIABLES
    memoryCache,    \* Map key -> CacheEntry, in insertion order
    localStorage,   \* the "manga_cache_<type>_<key>" items: key <<type, key>>, text
    isBrowser,      \* typeof window !== "undefined"
    now,            \* Date.now()
    lastSet,        \* history: per key, its latest set if nothing removed the key since
    lastEvicted,    \* history: the entries the last set evicted
    nSets,          \* history: set calls made
    nTicks,         \* history: clock steps taken
    nSweeps,        \* history: sweeps of cleanupExpiredCache run
    storageFails,   \* the durable tier is unavailable: every localStorage call throws
    caught,         \* history: the last operation caught an exception
    raised          \* history: the last operation threw to its caller

cacheVars == <<memoryCache, localStorage, isBrowser, now, lastSet,
               lastEvicted, nSets, nTicks, nSweeps, storageFails, caught, raised>>

\* The proxy handler that makes a retryWithBackoff call (route.ts:57-113).
VARIABLES
    forceHttp1      \* per call: the headers built before the call carry X-Force-HTTP1

proxyVars == <<forceHttp1>>

\* apiRequest (lib/api.ts:696-746), one call at a time.
VARIABLES
    fetchPc,        \* "idle", "awaiting" (axios in flight), "returned", "thrown"
    fetchReq,       \* the arguments of the call
    fetchCalls,     \* network calls the call has made
    fetchResult,    \* what the call returned
    fetchError,     \* what the call threw
    upstreamError,  \* history: the error the upstream call produced
    fetchPrior,     \* history: the latest set of the call's cache key when it started
    fetchAt,        \* history: Date.now() when the call started
    nFetches        \* history: calls of apiRequest made

fetchVars == <<fetchPc, fetchReq, fetchCalls, fetchResult, fetchError, upstreamError,
               fetchPrior, fetchAt, nFetches>>

\* apiRequest (lib/api.ts:696-746), several calls at the same time.
VARIABLES
    apiPc,          \* per call: "idle", "awaiting" (axios in flight), "returned", "thrown"
    apiReq,         \* per call: its arguments
    apiCalls,       \* per call: network calls it has made
    apiResult,      \* per call: what it returned
    apiMiss,        \* history, per call: the cache had nothing for its key when it started
    apiOverlap,     \* history, per call: the calls in flight when it started
    apiOrder        \* history: the calls in the order their responses arrived

apiVars == <<apiPc, apiReq, apiCalls, apiResult, apiMiss, apiOverlap, apiOrder>>

\* The manga-image proxy (app/api/manga-image/route.ts:10-82), one request
\* per client.
VARIABLES
    imagePc,        \* per request: "idle", "fetching" (axios in flight), "served", "failed"
    imageStatus,    \* per request: the status of the response handed back
    imageCalls      \* per request: calls of axios made

imageVars == <<imagePc, imageStatus, imageCalls>>

\* getChapterList (lib/api.ts:376-456), one call.
VARIABLES
    server,         \* the chapters of the manga's feed, in the order the server pages them
    chapPc,         \* "idle", "requesting" (apiRequest in flight), "sleeping", "done"
    hasCallback,    \* progressCallback was given
    offset,         \* let offset
    totalChapters,  \* let totalChapters
    totalFetched,   \* let totalFetched
    allChapters,    \* let allChapters
    progress,       \* history: the values handed to progressCallback
    pageRequests,   \* history: calls of apiRequest made
    uniqueChapters  \* what the call returned

chapterVars == <<server, chapPc, hasCallback, offset, totalChapters, totalFetched,
                 allChapters, progress, pageRequests, uniqueChapters>>

\* The cover-art fan-out of searchManga (lib/api.ts:933-990), one search.
VARIABLES
    fanPc,          \* "idle", "mapping" (the map callbacks start), "joining", "returned"
    records,           \* data.data: the manga of the search response
    branch,         \* per manga: "pending", "fetching" (axios in flight), "done"
    nextBranch,     \* the manga whose callback starts next
    enriched,       \* per manga: its cover_art relationship got attributes
    outcome,        \* history, per manga: "none", "nocover", "cached", "fetched", "failed"
    withAttributes, \* history, per manga: its cover data carried data.attributes
    completed,      \* history: the manga in the order their branches finished
    mangaWithCovers \* what Promise.all resolved with

fanVars == <<fanPc, records, branch, nextBranch, enriched, outcome, withAttributes, completed,
             mangaWithCovers>>

\* The state of everything around the three libraries.
appVars == <<proxyVars, fetchVars, apiVars, imageVars, chapterVars, fanVars>>

\* -------------------------------------------------- connection manager

\* connection-manager.ts:30, the admission test.
UnderLimitOffByOne(n) == n <= maxConnectionsPerHost
UnderLimit(n) == n < maxConnectionsPerHost

\* connection-manager.ts:43, queue.push(waiter).
QueueUnshift(q, w) == <<w>> \o q
QueuePush(q, w) == Append(q, w)

\* A release that gives back two slots.
DecrementTwice(n) == IF n > 1 THEN n - 2 ELSE 0

\* connection-manager.ts:61-64, the guarded decrement.
Decrement(n) == IF n > 0 THEN n - 1 ELSE n

\* History, kept apart from connectionQueue: the sequence q without client w.
Without(q, w) == SelectSeq(q, LAMBDA x : x # w)

\* acquireConnection called by client w with URL u: lines 18-52, synchronous.
acquireConnection(w, u) ==
    LET host == getHostFromUrl(u)
        currentConnections == activeConnections[host]
    IN /\ slotHost' = [slotHost EXCEPT ![w] = host]
       /\ IF UnderLimit(currentConnections)
          THEN /\ activeConnections' = [activeConnections EXCEPT ![host] = currentConnections + 1]
               /\ slot' = [slot EXCEPT ![w] = "held"]
               /\ UNCHANGED connectionQueue
          ELSE /\ connectionQueue' = [connectionQueue EXCEPT ![host] = QueuePush(@, w)]
               /\ slot' = [slot EXCEPT ![w] = "queued"]
               /\ UNCHANGED activeConnections
       /\ waitOrder' = IF UnderLimit(currentConnections) THEN waitOrder
                       ELSE [waitOrder EXCEPT ![host] = Append(@, w)]
       /\ lastResumed' = NoClient

\* releaseConnection(host): lines 58-75. The waiter callback (lines 43-49)
\* increments the counter and resolves the waiter's promise. `spent` is the
\* slot table after the caller's own token was used.
releaseConnection(host, spent) ==
    LET decremented == [activeConnections EXCEPT ![host] = Decrement(@)]
        queue == connectionQueue[host]
    IN /\ IF Len(queue) > 0
          THEN LET next == Head(queue)
               IN /\ activeConnections' = [decremented EXCEPT ![host] = @ + 1]
                  /\ connectionQueue' = [connectionQueue EXCEPT ![host] = Tail(queue)]
                  /\ slot' = [spent EXCEPT ![next] = "held"]
                  /\ waitOrder' = [waitOrder EXCEPT ![host] = Without(@, next)]
                  /\ lastResumed' = next
          ELSE /\ activeConnections' = decremented
               /\ UNCHANGED connectionQueue
               /\ slot' = spent
               /\ UNCHANGED waitOrder
               /\ lastResumed' = NoClient

\* ------------------------------------------------------ direct callers

\* A caller awaits acquireConnection(url).
CallerAcquire(c, u) ==
    /\ slot[c] = "none"
    /\ acquireConnection(c, u)
    /\ UNCHANGED <<http2FailedHosts, spentHosts>>
    /\ UNCHANGED callVars
    /\ UNCHANGED <<cacheVars, appVars>>

\* A caller that holds a slot calls its release function, once.
CallerRelease(c) ==
    /\ slot[c] = "held"
    /\ releaseConnection(slotHost[c], [slot EXCEPT ![c] = "none"])
    /\ spentHosts' = spentHosts \cup {slotHost[c]}
    /\ slotHost' = [slotHost EXCEPT ![c] = NoHost]
    /\ UNCHANGED http2FailedHosts
    /\ UNCHANGED callVars
    /\ UNCHANGED <<cacheVars, appVars>>

\* A release function that was already called is called a second time: the
\* closure is `() => this.releaseConnection(host)` (lines 35 and 48).
ReleaseAgain(h) ==
    /\ h \in spentHosts
    /\ releaseConnection(h, slot)
    /\ spentHosts' = spentHosts \ {h}
    /\ UNCHANGED <<http2FailedHosts, slotHost>>
    /\ UNCHANGED callVars
    /\ UNCHANGED <<cacheVars, appVars>>

\* ------------------------------------------------------------- errors

\* What `error.retryAfter` can hold: undefined or null, a number
\* (RateLimitError, api-error.ts:17), or the Retry-After header string
\* (mangadex-proxy/route.ts:76-80).
NoRetryAfter == [kind |-> "absent", n |-> 0]
RetryAfterSeconds == {0, 2}
RetryAfters ==
    {NoRetryAfter} \cup [kind : {"num", "str"}, n : RetryAfterSeconds]

\* An error as retryWithBackoff reads it: its class, `status` (0: undefined),
\* whether message or code carries an HTTP/2 marker, and `retryAfter`.
Err(cls, status, http2, ra) ==
    [cls |-> cls, status |-> status, http2 |-> http2, retryAfter |-> ra]

NoError == Err("none", 0, FALSE, NoRetryAfter)

\* api-error.ts:4-62: the subclasses of ApiError and of NetworkError.
ApiErrorClasses ==
    {"ApiError", "RateLimitError", "NotFoundError", "ServerError", "ClientError"}
NetworkErrorClasses == {"NetworkError", "TimeoutError"}

\* createApiError(message, status): api-error.ts:65-77.
createApiError(status) ==
    IF status = 429 THEN Err("RateLimitError", 429, FALSE, NoRetryAfter)
    ELSE IF status = 404 THEN Err("NotFoundError", 404, FALSE, NoRetryAfter)
    ELSE IF status >= 500 THEN Err("ServerError", status, FALSE, NoRetryAfter)
    ELSE IF status >= 400 THEN Err("ClientError", status, FALSE, NoRetryAfter)
    ELSE Err("ApiError", status, FALSE, NoRetryAfter)

Statuses == {400, 404, 408, 429, 500, 501}

\* The errors a work function rejects with: typed errors of api-error.ts
\* (handleApiResponse, lines 80-104), the plain errors the proxy route and
\* fetchWithRetry build (route.ts:75-91), and transport failures.
Failures ==
    {createApiError(st) : st \in Statuses}
    \cup {Err("RateLimitError", 429, FALSE, [kind |-> "num", n |-> n]) :
            n \in RetryAfterSeconds}
    \cup {Err("Error", 429, FALSE, ra) :
            ra \in {NoRetryAfter} \cup [kind : {"str"}, n : RetryAfterSeconds]}
    \cup {Err("Error", st, FALSE, NoRetryAfter) : st \in {404, 500}}
    \cup {Err("NetworkError", 0, FALSE, NoRetryAfter),
          Err("TimeoutError", 0, FALSE, NoRetryAfter),
          Err("Error", 0, FALSE, NoRetryAfter),
          Err("Error", 0, TRUE, NoRetryAfter)}

\* ----------------------------------------------------- retry policies

\* retry-with-backoff.ts:24-29, DEFAULT_RETRY_OPTIONS.retryCondition.
DefaultRetryCondition(error) ==
    IF error.cls \in NetworkErrorClasses THEN TRUE
    ELSE IF error.cls \in ApiErrorClasses
            /\ error.status \in {408, 429, 500, 502, 503, 504} THEN TRUE
    ELSE FALSE

\* A policy that retries no failure with a 4xx status.
RetriesNoClientStatus(error) == ~(error.status >= 400 /\ error.status < 500)

\* mangadex-proxy/route.ts:16-23, API_RETRY_OPTIONS.retryCondition.
ApiRetryCondition(error) ==
    IF error.status # 0 /\ error.status >= 400 /\ error.status < 500
    THEN error.status = 429
    ELSE TRUE

\* DEFAULT_RETRY_OPTIONS.retryCondition of the API client (lines 86-97 there).
ClientRetryCondition(error) ==
    IF error.status = 429 THEN TRUE
    ELSE IF error.status # 0 /\ error.status >= 400 /\ error.status < 500 THEN FALSE
    ELSE TRUE

retryCondition(policy, error) ==
    CASE policy = "default" -> DefaultRetryCondition(error)
      [] policy = "api" -> ApiRetryCondition(error)
      [] policy = "client" -> ClientRetryCondition(error)

Options(maxRetries, initialDelay, maxDelay, factor, jitter, policy) ==
    [maxRetries |-> maxRetries, initialDelay |-> initialDelay, maxDelay |-> maxDelay,
     factor |-> factor, jitter |-> jitter, policy |-> policy]

\* retry-with-backoff.ts:18-30.
DEFAULT_RETRY_OPTIONS == Options(3, 1000, 10000, 2, TRUE, "default")
\* mangadex-proxy/route.ts:10-24.
API_RETRY_OPTIONS == Options(3, 1000, 15000, 2, TRUE, "api")
\* DEFAULT_RETRY_OPTIONS of the API client (lines 80-98 there).
CLIENT_RETRY_OPTIONS == Options(3, 2000, 30000, 2, TRUE, "client")

\* Delay settings a caller overrides the defaults with (Partial<RetryOptions>):
\* a constant delay, and one that reaches maxDelay on the second retry.
OverrideDelays ==
    {[initialDelay |-> 500, maxDelay |-> 10000, factor |-> 1],
     [initialDelay |-> 1000, maxDelay |-> 2500, factor |-> 3]}

\* { ...DEFAULT_RETRY_OPTIONS, ...options }: line 44.
MergedOptions ==
    {[base EXCEPT !.maxRetries = m, !.jitter = j] :
        base \in {DEFAULT_RETRY_OPTIONS, API_RETRY_OPTIONS, CLIENT_RETRY_OPTIONS},
        m \in 0..MaxRetries, j \in BOOLEAN}
    \cup {[DEFAULT_RETRY_OPTIONS EXCEPT !.maxRetries = m, !.jitter = j,
              !.initialDelay = d.initialDelay, !.maxDelay = d.maxDelay,
              !.factor = d.factor] :
        d \in OverrideDelays, m \in 0..MaxRetries, j \in BOOLEAN}

\* ------------------------------------------------------ retryWithBackoff

NoUrl == "none"

RECURSIVE Pow(_, _)
Pow(b, e) == IF e = 0 THEN 1 ELSE b * Pow(b, e - 1)

Min(a, b) == IF a < b THEN a ELSE b

\* Lines 79-82.
isHttp2Error(error) == error.http2

\* Line 104.
isRateLimited(error) == error.cls = "RateLimitError" \/ error.status = 429

\* JavaScript truthiness of error.retryAfter: undefined, null and the number 0
\* are falsy; a non-empty string, "0" included, is truthy.
Truthy(ra) == \/ ra.kind = "str"
              \/ ra.kind = "num" /\ ra.n # 0

\* Line 106.
retryAfterMs(ra) == IF Truthy(ra) THEN ra.n * 1000 ELSE 5000

\* Line 143.
BackoffDelayOffByOne(cfg, n) == Min(cfg.initialDelay * Pow(cfg.factor, n), cfg.maxDelay)
BackoffDelay(cfg, n) == Min(cfg.initialDelay * Pow(cfg.factor, n - 1), cfg.maxDelay)

\* Line 147 with Math.random() = k/4.
JitterSamples == {0, 3}
JitterChoices(cfg) == IF cfg.jitter THEN JitterSamples ELSE {0}
Jittered(delay, k) == (delay * (12 + k)) \div 16

\* Lines 92, 115 and 126: attempt++.
NextAttemptTwice(a) == a + 2
NextAttempt(a) == a + 1

\* Line 129, the test that ends the call.
GivesUpIgnoringCondition(cfg, n, error) == n >= cfg.maxRetries
GivesUpLate(cfg, n, error) == n > cfg.maxRetries \/ ~retryCondition(cfg.policy, error)
GivesUp(cfg, n, error) == n >= cfg.maxRetries \/ ~retryCondition(cfg.policy, error)

\* Lines 90 and 113, the test that allows an immediate retry.
MayRetryOffByOne(cfg, n) == n <= cfg.maxRetries
MayRetry(cfg, n) == n < cfg.maxRetries

\* Lines 66-69 and 73-76: `if (releaseConnection) releaseConnection()`.
ReleaseSlot(p) ==
    IF hasRelease[p]
    THEN /\ releaseConnection(slotHost[p], [slot EXCEPT ![p] = "none"])
         /\ spentHosts' = spentHosts \cup {slotHost[p]}
         /\ releaseCalls' = [releaseCalls EXCEPT ![p] = @ + 1]
         /\ UNCHANGED slotHost
    ELSE /\ UNCHANGED <<activeConnections, connectionQueue, slot, slotHost,
                        spentHosts, waitOrder, lastResumed>>
         /\ UNCHANGED releaseCalls

\* The catch block with the slot kept: what line 74-76 prevents.
ReleaseSlotSkipped(p) ==
    /\ UNCHANGED <<activeConnections, connectionQueue, slot, slotHost,
                   spentHosts, waitOrder, lastResumed>>
    /\ UNCHANGED releaseCalls

ReleaseAfterFailure(p) == ReleaseSlot(p)

\* Lines 125-158: the ordinary path, entered with the error in hand.
OrdinaryPath(p, error, k) ==
    LET cfg == config[p]
        n == NextAttempt(attempt[p])
        delay == BackoffDelay(cfg, n)
    IN /\ attempt' = [attempt EXCEPT ![p] = n]
       /\ nOrdinary' = [nOrdinary EXCEPT ![p] = @ + 1]
       /\ IF GivesUp(cfg, n, error)
          THEN /\ pc' = [pc EXCEPT ![p] = "thrown"]
               /\ annotated' = [annotated EXCEPT ![p] = n]
               /\ lastError' = [lastError EXCEPT ![p] = error]
               /\ sleepMs' = [sleepMs EXCEPT ![p] = 0]
          ELSE /\ pc' = [pc EXCEPT ![p] = "sleepBackoff"]
               /\ sleepMs' = [sleepMs EXCEPT ![p] =
                                 IF cfg.jitter THEN Jittered(delay, k) ELSE delay]
               /\ lastError' = [lastError EXCEPT ![p] = error]
               /\ UNCHANGED annotated

\* Lines 50-64 up to the first await: the fallback check, then either
\* acquireConnection(url) or, without a url, fn() itself.
LoopTop(p) ==
    /\ pc[p] = "top"
    /\ IF url[p] # NoUrl
       THEN /\ useHttp1Fallback' = [useHttp1Fallback EXCEPT ![p] =
                    @ \/ getHostFromUrl(url[p]) \in http2FailedHosts]
            /\ acquireConnection(p, url[p])
            /\ hasRelease' = [hasRelease EXCEPT ![p] = TRUE]
            /\ pc' = [pc EXCEPT ![p] = "acquiring"]
            /\ UNCHANGED invocations
       ELSE /\ hasRelease' = [hasRelease EXCEPT ![p] = FALSE]
            /\ pc' = [pc EXCEPT ![p] = "running"]
            /\ invocations' = [invocations EXCEPT ![p] = @ + 1]
            /\ UNCHANGED <<useHttp1Fallback, activeConnections, connectionQueue, slot,
                           slotHost, waitOrder, lastResumed>>
    /\ releaseCalls' = [releaseCalls EXCEPT ![p] = 0]
    /\ UNCHANGED <<http2FailedHosts, spentHosts>>
    /\ rejected' = [rejected EXCEPT ![p] = NoError]
    /\ UNCHANGED <<config, url, workFailures, attempt, lastError, sleepMs, annotated,
                   prevBackoff, nOrdinary, nRate, nHttp2>>
    /\ UNCHANGED <<cacheVars, appVars>>

\* Lines 59-64: the acquire promise has resolved; fn() is called.
StartWork(p) ==
    /\ pc[p] = "acquiring"
    /\ slot[p] = "held"
    /\ pc' = [pc EXCEPT ![p] = "running"]
    /\ invocations' = [invocations EXCEPT ![p] = @ + 1]
    /\ UNCHANGED connVars
    /\ UNCHANGED <<config, url, workFailures, attempt, useHttp1Fallback, hasRelease,
                   lastError, sleepMs, annotated, releaseCalls, prevBackoff,
                   rejected, nOrdinary, nRate, nHttp2>>
    /\ UNCHANGED <<cacheVars, appVars>>

\* Lines 64-71: fn() resolved.
WorkSucceeds(p) ==
    /\ pc[p] = "running"
    /\ ReleaseSlot(p)
    /\ pc' = [pc EXCEPT ![p] = "returned"]
    /\ UNCHANGED http2FailedHosts
    /\ UNCHANGED <<config, url, workFailures, attempt, useHttp1Fallback, hasRelease,
                   lastError, sleepMs, annotated, invocations, prevBackoff,
                   rejected, nOrdinary, nRate, nHttp2>>
    /\ UNCHANGED <<cacheVars, appVars>>

\* Lines 72-158 up to the next await: fn() rejected with `error`.
WorkFails(p, error, k) ==
    /\ pc[p] = "running"
    /\ error \in workFailures[p]
    /\ ReleaseAfterFailure(p)
    /\ LET http2 == isHttp2Error(error) /\ url[p] # NoUrl
       IN /\ http2FailedHosts' = IF http2 THEN http2FailedHosts \cup {getHostFromUrl(url[p])}
                                 ELSE http2FailedHosts
          /\ useHttp1Fallback' = [useHttp1Fallback EXCEPT ![p] = @ \/ http2]
          /\ IF http2 /\ MayRetry(config[p], attempt[p])
             THEN /\ attempt' = [attempt EXCEPT ![p] = NextAttempt(@)]
                  /\ nHttp2' = [nHttp2 EXCEPT ![p] = @ + 1]
                  /\ pc' = [pc EXCEPT ![p] = "top"]
                  /\ UNCHANGED <<lastError, sleepMs, annotated, nOrdinary, nRate>>
             ELSE IF isRateLimited(error)
             THEN /\ pc' = [pc EXCEPT ![p] = "sleepRate"]
                  /\ lastError' = [lastError EXCEPT ![p] = error]
                  /\ sleepMs' = [sleepMs EXCEPT ![p] = retryAfterMs(error.retryAfter)]
                  /\ UNCHANGED <<attempt, annotated, nOrdinary, nRate, nHttp2>>
             ELSE /\ OrdinaryPath(p, error, k)
                  /\ UNCHANGED <<nRate, nHttp2>>
    /\ rejected' = [rejected EXCEPT ![p] = error]
    /\ UNCHANGED <<config, url, workFailures, hasRelease, invocations, prevBackoff>>
    /\ UNCHANGED <<cacheVars, appVars>>

\* Lines 110-123: the rate-limit timer fired.
RateSleepDone(p, k) ==
    /\ pc[p] = "sleepRate"
    /\ IF MayRetry(config[p], attempt[p])
       THEN /\ attempt' = [attempt EXCEPT ![p] = NextAttempt(@)]
            /\ nRate' = [nRate EXCEPT ![p] = @ + 1]
            /\ pc' = [pc EXCEPT ![p] = "top"]
            /\ lastError' = [lastError EXCEPT ![p] = NoError]
            /\ sleepMs' = [sleepMs EXCEPT ![p] = 0]
            /\ rejected' = [rejected EXCEPT ![p] = NoError]
            /\ UNCHANGED <<annotated, nOrdinary>>
       ELSE /\ OrdinaryPath(p, lastError[p], k)
            /\ UNCHANGED <<nRate, rejected>>
    /\ UNCHANGED connVars
    /\ UNCHANGED <<config, url, workFailures, useHttp1Fallback, hasRelease,
                   invocations, releaseCalls, prevBackoff, nHttp2>>
    /\ UNCHANGED <<cacheVars, appVars>>

\* Line 158: the backoff timer fired; the loop starts over.
BackoffSleepDone(p) ==
    /\ pc[p] = "sleepBackoff"
    /\ pc' = [pc EXCEPT ![p] = "top"]
    /\ prevBackoff' = [prevBackoff EXCEPT ![p] = sleepMs[p]]
    /\ sleepMs' = [sleepMs EXCEPT ![p] = 0]
    /\ lastError' = [lastError EXCEPT ![p] = NoError]
    /\ rejected' = [rejected EXCEPT ![p] = NoError]
    /\ UNCHANGED connVars
    /\ UNCHANGED <<config, url, workFailures, attempt, useHttp1Fallback, hasRelease,
                   annotated, invocations, releaseCalls, nOrdinary, nRate, nHttp2>>
    /\ UNCHANGED <<cacheVars, appVars>>

\* ------------------------------------------------------- cache manager

\* cache-manager.ts:17-30, DEFAULT_CACHE_CONFIG (ttl in milliseconds).
CacheTypes ==
    {"chapterList", "mangaDetails", "searchResults", "coverImage", "chapterPages", "default"}

DEFAULT_CACHE_CONFIG ==
    [type \in CacheTypes |->
        CASE type = "chapterList" -> [ttl |-> 60 * 60 * 1000, maxSize |-> 50]
          [] type = "mangaDetails" -> [ttl |-> 6 * 60 * 60 * 1000, maxSize |-> 100]
          [] type = "searchResults" -> [ttl |-> 30 * 60 * 1000, maxSize |-> 20]
          [] type = "coverImage" -> [ttl |-> 24 * 60 * 60 * 1000, maxSize |-> 200]
          [] type = "chapterPages" -> [ttl |-> 6 * 60 * 60 * 1000, maxSize |-> 30]
          [] type = "default" -> [ttl |-> 15 * 60 * 1000, maxSize |-> 100]]

\* Line 93: an unrecognized type falls back to the default configuration.
ConfigFor(type) ==
    IF type \in CacheTypes THEN DEFAULT_CACHE_CONFIG[type] ELSE DEFAULT_CACHE_CONFIG["default"]

\* What get returns on a miss (null).
Absent == 0
NoEntry == [key |-> <<"", 0>>, data |-> Absent, timestamp |-> 0, expiresAt |-> 0,
            type |-> ""]

\* A cache key is a string "<head>_<rest>", kept as <<head, n>> with n the
\* number of its rest; key.startsWith(`${type}_`) (lines 161 and 299)
\* compares the head.
StartsWithType(key, type) == key[1] = type

\* A CacheEntry (lines 4-8) with its Map key; `type` is history, the type the
\* entry was written under.
Entry(key, data, timestamp, expiresAt, type) ==
    [key |-> key, data |-> data, timestamp |-> timestamp, expiresAt |-> expiresAt,
     type |-> type]

\* JSON.stringify(cacheEntry) and JSON.parse(storedItem): the stored text holds
\* the three fields of the entry; the payloads cached are parsed JSON already.
JsonStringify(e) == <<"data", e.data, "timestamp", e.timestamp, "expiresAt", e.expiresAt>>
JsonParse(text, key, type) == Entry(key, text[2], text[4], text[6], type)

\* A Map, and localStorage, as the sequence of their entries in insertion order.
RECURSIVE IndexOf(_, _, _)
IndexOf(seq, key, i) ==
    IF i > Len(seq) THEN 0
    ELSE IF seq[i].key = key THEN i
    ELSE IndexOf(seq, key, i + 1)

Has(seq, key) == IndexOf(seq, key, 1) # 0
Lookup(seq, key) == seq[IndexOf(seq, key, 1)]
PutIfAbsent(seq, e) == IF Has(seq, e.key) THEN seq ELSE Append(seq, e)
Put(seq, e) ==
    IF Has(seq, e.key) THEN [seq EXCEPT ![IndexOf(seq, e.key, 1)] = e] ELSE Append(seq, e)
Delete(seq, key) == SelectSeq(seq, LAMBDA e : e.key # key)

NoSet == [type |-> "", data |-> Absent, at |-> 0, written |-> FALSE]

\* Lines 60, 107 and 130: the storage key.
StorageKey(type, key) == <<type, key>>

\* Lines 52 and 67: an entry is served while expiresAt > Date.now().
ValidInclusive(e, t) == e.expiresAt >= t
Valid(e, t) == e.expiresAt > t

\* Whether localStorage is used and answers, or is used and throws.
StorageUp == isBrowser /\ ~storageFails
StorageThrows == isBrowser /\ storageFails

\* The statements that sit in a try block with a catch that only logs: the
\* body of set (lines 92-117, the call of enforceMaxSize included) and the
\* localStorage parts of get (59-81), remove (129-135), clear (146-156,
\* 172-182) and cleanupExpiredCache (259-281).
NoTryBlocks == {}
TryBlocks == {"set", "get", "remove", "clear", "cleanupExpiredCache"}

\* An exception thrown in a part of an operation reaches the caller unless a
\* try block holds that part.
Surfaces(thrown, part) == thrown /\ part \notin TryBlocks
Swallowed(thrown, part) == thrown /\ part \in TryBlocks

\* remove(key, type): lines 123-137, on a memory map and a storage.
RemoveFromMemory(mem, key) == Delete(mem, key)
RemoveFromStorage(store, key, type) ==
    IF StorageUp THEN Delete(store, StorageKey(type, key)) ELSE store

\* Lines 296-302: the entries enforceMaxSize counts for a type.
TypeItems(mem, type) == SelectSeq(mem, LAMBDA e : StartsWithType(e.key, type))

\* Line 307: Array.prototype.sort by timestamp, which is stable.
RECURSIVE OldestIndex(_, _, _)
OldestIndex(items, i, best) ==
    IF i > Len(items) THEN best
    ELSE OldestIndex(items, i + 1,
                     IF items[i].timestamp < items[best].timestamp THEN i ELSE best)

RECURSIVE SortByTimestamp(_)
SortByTimestamp(items) ==
    IF items = <<>> THEN <<>>
    ELSE LET i == OldestIndex(items, 1, 1)
         IN <<items[i]>> \o SortByTimestamp(SubSeq(items, 1, i - 1)
                                            \o SubSeq(items, i + 1, Len(items)))

\* Lines 292-317: the keys enforceMaxSize removes for a recognized type.
ItemsToRemove(mem, type) ==
    LET typeItems == TypeItems(mem, type)
        over == Len(typeItems) - DEFAULT_CACHE_CONFIG[type].maxSize
    IN IF over > 0
       THEN {SortByTimestamp(typeItems)[i].key : i \in 1..over}
       ELSE {}

\* set(key, data, type): lines 91-118. A failing localStorage.setItem
\* (line 108) leaves the memory entry written and skips enforceMaxSize; for
\* an unrecognized type enforceMaxSize throws on `config.maxSize` (line 294).
\* The catch of set swallows both.
CacheSet(key, data, type) ==
    LET cacheEntry == Entry(key, data, now, now + ConfigFor(type).ttl, type)
        mem == Put(memoryCache, cacheEntry)
        store == IF StorageUp
                 THEN Put(localStorage,
                          [key |-> StorageKey(type, key), text |-> JsonStringify(cacheEntry)])
                 ELSE localStorage
        thrown == StorageThrows \/ type \notin CacheTypes
        evicted == IF ~thrown THEN ItemsToRemove(mem, type) ELSE {}
    IN /\ memoryCache' = SelectSeq(mem, LAMBDA e : e.key \notin evicted)
       /\ localStorage' = IF StorageUp
                          THEN SelectSeq(store,
                                   LAMBDA item : ~(item.key[1] = type /\ item.key[2] \in evicted))
                          ELSE store
       /\ lastSet' = [k \in DOMAIN lastSet |->
                        IF k \in evicted THEN NoSet
                        ELSE IF k = key
                        THEN [type |-> type, data |-> data, at |-> now, written |-> TRUE]
                        ELSE lastSet[k]]
       /\ lastEvicted' = {mem[i] : i \in {j \in 1..Len(mem) : mem[j].key \in evicted}}
       /\ nSets' = nSets + 1
       /\ caught' = Swallowed(thrown, "set")
       /\ raised' = Surfaces(thrown, "set")
       /\ UNCHANGED <<isBrowser, now, nTicks, nSweeps, storageFails>>

\* get(key, type): lines 49-86. GetResult is what it returns, CacheGet what
\* it does to the two tiers.
MemoryHit(key) == Has(memoryCache, key) /\ Valid(Lookup(memoryCache, key), now)
\* A get that never looks into localStorage.
NeverStored(key, type) == FALSE
Stored(key, type) == StorageUp /\ Has(localStorage, StorageKey(type, key))
ParsedItem(key, type) ==
    JsonParse(Lookup(localStorage, StorageKey(type, key)).text, key, type)

GetResult(key, type) ==
    IF MemoryHit(key) THEN Lookup(memoryCache, key).data
    ELSE IF Stored(key, type) /\ Valid(ParsedItem(key, type), now)
    THEN ParsedItem(key, type).data
    ELSE Absent

CacheGet(key, type) ==
    /\ IF MemoryHit(key)
       THEN UNCHANGED <<memoryCache, localStorage>>
       ELSE IF Stored(key, type) /\ Valid(ParsedItem(key, type), now)
       THEN /\ memoryCache' = Put(memoryCache, ParsedItem(key, type))
            /\ UNCHANGED localStorage
       ELSE IF Stored(key, type)
       THEN /\ localStorage' = Delete(localStorage, StorageKey(type, key))
            /\ UNCHANGED memoryCache
       ELSE UNCHANGED <<memoryCache, localStorage>>
    /\ lastEvicted' = {}
    /\ caught' = Swallowed(~MemoryHit(key) /\ StorageThrows, "get")
    /\ raised' = Surfaces(~MemoryHit(key) /\ StorageThrows, "get")
    /\ UNCHANGED <<isBrowser, now, lastSet, nSets, nTicks, nSweeps, storageFails>>

\* remove(key, type): lines 123-137.
CacheRemove(key, type) ==
    /\ memoryCache' = RemoveFromMemory(memoryCache, key)
    /\ localStorage' = RemoveFromStorage(localStorage, key, type)
    /\ lastSet' = [lastSet EXCEPT ![key] = NoSet]
    /\ lastEvicted' = {}
    /\ caught' = Swallowed(StorageThrows, "remove")
    /\ raised' = Surfaces(StorageThrows, "remove")
    /\ UNCHANGED <<isBrowser, now, nSets, nTicks, nSweeps, storageFails>>

\* clear(type): lines 142-187; NoType is the call without a type. The loops
\* over localStorage (148-153, 174-179) advance their index past the item
\* that moves into the place of one they removed.
NoType == ""

RECURSIVE ClearStorage(_, _, _)
ClearStorage(store, i, type) ==
    IF i > Len(store) THEN store
    ELSE IF type = NoType \/ store[i].key[1] = type
    THEN ClearStorage(SubSeq(store, 1, i - 1) \o SubSeq(store, i + 1, Len(store)), i + 1, type)
    ELSE ClearStorage(store, i + 1, type)

CacheClear(type) ==
    /\ memoryCache' = IF type = NoType THEN <<>>
                      ELSE SelectSeq(memoryCache, LAMBDA e : ~StartsWithType(e.key, type))
    /\ localStorage' = IF StorageUp THEN ClearStorage(localStorage, 1, type) ELSE localStorage
    /\ lastSet' = [k \in DOMAIN lastSet |-> NoSet]
    /\ lastEvicted' = {}
    /\ caught' = Swallowed(StorageThrows, "clear")
    /\ raised' = Surfaces(StorageThrows, "clear")
    /\ UNCHANGED <<isBrowser, now, nSets, nTicks, nSweeps, storageFails>>

\* cleanupExpiredCache: lines 245-287. Deleting from the Map while iterating
\* it visits every entry; the loop over localStorage advances its index past
\* the item that moves into the place of one it removed.
Expired(e, t) == e.expiresAt <= t

RECURSIVE SweepStorage(_, _, _)
SweepStorage(store, i, t) ==
    IF i > Len(store) THEN store
    ELSE IF Expired(JsonParse(store[i].text, store[i].key[2], store[i].key[1]), t)
    THEN SweepStorage(SubSeq(store, 1, i - 1) \o SubSeq(store, i + 1, Len(store)), i + 1, t)
    ELSE SweepStorage(store, i + 1, t)

cleanupExpiredCache ==
    /\ memoryCache' = SelectSeq(memoryCache, LAMBDA e : ~Expired(e, now))
    /\ localStorage' = IF StorageUp THEN SweepStorage(localStorage, 1, now) ELSE localStorage
    /\ lastEvicted' = {}
    /\ caught' = Swallowed(StorageThrows, "cleanupExpiredCache")
    /\ raised' = Surfaces(StorageThrows, "cleanupExpiredCache")
    /\ UNCHANGED <<isBrowser, now, lastSet, nSets, nTicks, storageFails>>

\* Date.now() moves on: by a millisecond, or to the last millisecond before an
\* entry expires or the one it expires at.
Instants ==
    {now + 1}
    \cup {memoryCache[i].expiresAt - 1 : i \in 1..Len(memoryCache)}
    \cup {memoryCache[i].expiresAt : i \in 1..Len(memoryCache)}

Tick(t) ==
    /\ t \in Instants
    /\ t > now
    /\ now' = t
    /\ nTicks' = nTicks + 1
    /\ lastEvicted' = {}
    /\ caught' = FALSE
    /\ raised' = FALSE
    /\ UNCHANGED <<memoryCache, localStorage, isBrowser, lastSet, nSets, nSweeps, storageFails>>

vars == <<connVars, callVars, cacheVars, appVars>>

\* Keys, payloads and types the cache is called with.
CacheKeys == {<<"search", 1>>, <<"searchResults", 1>>}
\* Every set call stores a payload of its own.
FreshPayload == nSets + 1
UsedTypes == {"searchResults", "default"}

\* set, get, remove and the clock as the steps of a client of the cache.
SetCall(key, type) ==
    /\ nSets < MaxSets
    /\ CacheSet(key, FreshPayload, type)
    /\ UNCHANGED <<connVars, callVars, appVars>>

GetCall(key, type) ==
    /\ CacheGet(key, type)
    /\ UNCHANGED <<connVars, callVars, appVars>>

\* A remove of a key that is in neither tier changes nothing.
RemoveCall(key, type) ==
    /\ Has(memoryCache, key) \/ Has(localStorage, StorageKey(type, key))
    /\ CacheRemove(key, type)
    /\ UNCHANGED <<connVars, callVars, appVars>>

ClockTick(t) ==
    /\ nTicks < MaxTicks
    /\ Tick(t)
    /\ UNCHANGED <<connVars, callVars, appVars>>

\* A set by a client of a cache that already holds FullSize entries.
SetMore(key, type) ==
    /\ nSets < DEFAULT_CACHE_CONFIG["searchResults"].maxSize + MaxSets
    /\ CacheSet(key, FreshPayload, type)
    /\ UNCHANGED <<connVars, callVars, appVars>>

\* Line 44: the interval runs cleanupExpiredCache, in a browser only.
SweepCall ==
    /\ isBrowser
    /\ nSweeps < MaxSweeps
    /\ nSweeps' = nSweeps + 1
    /\ cleanupExpiredCache
    /\ UNCHANGED <<connVars, callVars, appVars>>

\* Lines 40-45: the interval is set up in a browser only, and there it keeps
\* firing for as long as the page lives.
SweepTimer ==
    /\ isBrowser
    /\ cleanupExpiredCache
    /\ UNCHANGED nSweeps
    /\ UNCHANGED <<connVars, callVars, appVars>>

\* clear, with or without a type.
ClearCall(type) ==
    /\ CacheClear(type)
    /\ UNCHANGED <<connVars, callVars, appVars>>

\* The durable tier becomes unavailable (private mode, quota, a revoked
\* permission) or available again.
StorageFlips ==
    /\ isBrowser
    /\ storageFails' = ~storageFails
    /\ caught' = FALSE
    /\ raised' = FALSE
    /\ lastEvicted' = {}
    /\ UNCHANGED <<memoryCache, localStorage, isBrowser, now, lastSet, nSets, nTicks, nSweeps>>
    /\ UNCHANGED <<connVars, callVars, appVars>>

\* ------------------------------------------------------------ apiRequest

\* The arguments of apiRequest: path, params (by number), method, cacheType
\* (NoType: undefined) and forceFresh.
Request(path, params, method, cacheType, forceFresh) ==
    [path |-> path, params |-> params, method |-> method, cacheType |-> cacheType,
     forceFresh |-> forceFresh]

NoRequest == Request("", 0, "", NoType, FALSE)

Requests ==
    {Request("/manga", n, m, t, f) :
        n \in {1, 2}, m \in {"GET", "POST"}, t \in {NoType, "mangaDetails", "searchResults"},
        f \in BOOLEAN}

\* Line 705: `${path}_${JSON.stringify(params)}_${method}`; the text after the
\* path is numbered by params and method.
cacheKey(req) == <<req.path, 2 * req.params + (IF req.method = "POST" THEN 1 ELSE 0)>>

FetchKeys == {cacheKey(req) : req \in Requests}

\* A client that never stores what it fetched.
NeverWritesCache(req) == FALSE

\* Line 708 and line 728.
ReadsCache(req) == req.method = "GET" /\ ~req.forceFresh /\ req.cacheType # NoType
WritesCache(req) == req.method = "GET" /\ req.cacheType # NoType

\* Line 710, `if (cachedData)`: the payloads are JSON objects, so null is the
\* only falsy value get hands back.
IsTruthy(v) == v # Absent

\* The errors the proxy's retryWithBackoff call can end with.
UpstreamErrors ==
    {Err("Error", 404, FALSE, NoRetryAfter),
     Err("Error", 400, FALSE, NoRetryAfter),
     Err("Error", 500, FALSE, NoRetryAfter),
     Err("Error", 429, FALSE, [kind |-> "str", n |-> 2]),
     Err("Error", 0, FALSE, NoRetryAfter),
     Err("TimeoutError", 0, FALSE, NoRetryAfter)}

\* route.ts:120-149: the status of the proxy's error response.
ProxyStatus(error) == IF error.status # 0 THEN error.status ELSE 500

\* Lines 733-745: whatever axios rejected with, apiRequest throws a new Error
\* that carries a message only.
WrappedError(status) == Err("Error", 0, FALSE, NoRetryAfter)

\* Lines 696-725 up to the await of axios.
FetchStart(req) ==
    /\ fetchPc \in {"idle", "returned", "thrown"}
    /\ nFetches < MaxFetches
    /\ nFetches' = nFetches + 1
    /\ fetchReq' = req
    /\ fetchPrior' = lastSet[cacheKey(req)]
    /\ fetchAt' = now
    /\ fetchError' = NoError
    /\ upstreamError' = NoError
    /\ IF ReadsCache(req)
       THEN /\ CacheGet(cacheKey(req), req.cacheType)
            /\ IF IsTruthy(GetResult(cacheKey(req), req.cacheType))
               THEN /\ fetchPc' = "returned"
                    /\ fetchResult' = GetResult(cacheKey(req), req.cacheType)
                    /\ fetchCalls' = 0
               ELSE /\ fetchPc' = "awaiting"
                    /\ fetchResult' = Absent
                    /\ fetchCalls' = 1
       ELSE /\ fetchPc' = "awaiting"
            /\ fetchResult' = Absent
            /\ fetchCalls' = 1
            /\ UNCHANGED cacheVars
    /\ UNCHANGED <<connVars, callVars, proxyVars, apiVars, imageVars, chapterVars, fanVars>>

\* Lines 727-732: axios resolved; the n-th call of apiRequest is answered
\* with payload n.
FetchResponds ==
    /\ fetchPc = "awaiting"
    /\ IF WritesCache(fetchReq)
       THEN CacheSet(cacheKey(fetchReq), nFetches, fetchReq.cacheType)
       ELSE UNCHANGED cacheVars
    /\ fetchPc' = "returned"
    /\ fetchResult' = nFetches
    /\ UNCHANGED <<fetchReq, fetchCalls, fetchError, upstreamError, fetchPrior, fetchAt,
                   nFetches>>
    /\ UNCHANGED <<connVars, callVars, proxyVars, apiVars, imageVars, chapterVars, fanVars>>

\* Lines 733-745: the upstream call failed with `error`, the proxy answered
\* with an error response and axios rejected.
FetchFails(error) ==
    /\ fetchPc = "awaiting"
    /\ fetchPc' = "thrown"
    /\ upstreamError' = error
    /\ fetchError' = WrappedError(ProxyStatus(error))
    /\ UNCHANGED <<fetchReq, fetchCalls, fetchResult, fetchPrior, fetchAt, nFetches>>
    /\ UNCHANGED <<connVars, callVars, cacheVars, proxyVars, apiVars, imageVars, chapterVars, fanVars>>

\* The calls of apiRequest that run at the same time, and what they ask for.
ApiCalls == 1..NumRequests

ConcurrentRequests ==
    {Request("/manga", 1, "GET", t, f) :
        t \in {NoType, "mangaDetails", "searchResults"}, f \in BOOLEAN}
    \cup {Request("/manga", 2, "GET", "searchResults", FALSE)}

\* Neither tier has a live entry a get of the request's key would return.
Uncached(req) ==
    IF req.cacheType = NoType THEN ~MemoryHit(cacheKey(req))
    ELSE GetResult(cacheKey(req), req.cacheType) = Absent

\* The response of the upstream to call c: every network call is answered
\* with a payload of its own.
ResponseData(c) == c

\* Lines 696-725 up to the await of axios, for one of several calls. There is
\* no table of requests in flight: only the cache is consulted.
ApiStart(c, req) ==
    /\ apiPc[c] = "idle"
    /\ apiReq' = [apiReq EXCEPT ![c] = req]
    /\ apiMiss' = [apiMiss EXCEPT ![c] = Uncached(req)]
    /\ apiOverlap' = [apiOverlap EXCEPT ![c] = {d \in ApiCalls : apiPc[d] = "awaiting"}]
    /\ IF ReadsCache(req)
       THEN /\ CacheGet(cacheKey(req), req.cacheType)
            /\ IF IsTruthy(GetResult(cacheKey(req), req.cacheType))
               THEN /\ apiPc' = [apiPc EXCEPT ![c] = "returned"]
                    /\ apiResult' = [apiResult EXCEPT ![c] =
                                         GetResult(cacheKey(req), req.cacheType)]
                    /\ UNCHANGED apiCalls
               ELSE /\ apiPc' = [apiPc EXCEPT ![c] = "awaiting"]
                    /\ apiCalls' = [apiCalls EXCEPT ![c] = @ + 1]
                    /\ UNCHANGED apiResult
       ELSE /\ apiPc' = [apiPc EXCEPT ![c] = "awaiting"]
            /\ apiCalls' = [apiCalls EXCEPT ![c] = @ + 1]
            /\ UNCHANGED apiResult
            /\ UNCHANGED cacheVars
    /\ UNCHANGED apiOrder
    /\ UNCHANGED <<connVars, callVars, proxyVars, fetchVars, imageVars, chapterVars, fanVars>>

\* Lines 727-732: axios resolved for call c.
ApiResponds(c) ==
    /\ apiPc[c] = "awaiting"
    /\ IF WritesCache(apiReq[c])
       THEN CacheSet(cacheKey(apiReq[c]), ResponseData(c), apiReq[c].cacheType)
       ELSE UNCHANGED cacheVars
    /\ apiPc' = [apiPc EXCEPT ![c] = "returned"]
    /\ apiResult' = [apiResult EXCEPT ![c] = ResponseData(c)]
    /\ apiOrder' = Append(apiOrder, c)
    /\ UNCHANGED <<apiReq, apiCalls, apiMiss, apiOverlap>>
    /\ UNCHANGED <<connVars, callVars, proxyVars, fetchVars, imageVars, chapterVars, fanVars>>

\* Lines 733-745: axios rejected for call c.
ApiFails(c) ==
    /\ apiPc[c] = "awaiting"
    /\ apiPc' = [apiPc EXCEPT ![c] = "thrown"]
    /\ UNCHANGED <<apiReq, apiCalls, apiResult, apiMiss, apiOverlap, apiOrder>>
    /\ UNCHANGED <<connVars, callVars, cacheVars, proxyVars, fetchVars, imageVars,
                   chapterVars, fanVars>>

\* ------------------------------------------------------ manga-image proxy

\* Every image is fetched from the upload host.
imageUrl == "https://uploads.mangadex.org/covers"

\* The browsers asking the proxy for an image at the same time.
ImageClients == 1 .. (maxConnectionsPerHost + 1)

\* The statuses an upstream image request can fail with (0: no response).
ImageFailures == {0, 404, 500, 503}

\* Lines 10-46 up to the await of axios: the handler reads hasHttp2Failed
\* for its headers and calls axios; it calls neither acquireConnection nor
\* retryWithBackoff.
ImageGet(p) ==
    /\ imagePc[p] = "idle"
    /\ imagePc' = [imagePc EXCEPT ![p] = "fetching"]
    /\ imageCalls' = [imageCalls EXCEPT ![p] = @ + 1]
    /\ UNCHANGED <<imageStatus, connVars, callVars, cacheVars, proxyVars, apiVars, fetchVars, chapterVars, fanVars>>

\* Lines 53-70: axios resolved.
ImageResponds(p) ==
    /\ imagePc[p] = "fetching"
    /\ imagePc' = [imagePc EXCEPT ![p] = "served"]
    /\ imageStatus' = [imageStatus EXCEPT ![p] = 200]
    /\ UNCHANGED <<imageCalls, connVars, callVars, cacheVars, proxyVars, apiVars, fetchVars, chapterVars, fanVars>>

\* Lines 71-81: axios rejected; the handler answers with the upstream status,
\* or with 500 when there was no response.
ImageFails(p, status) ==
    /\ imagePc[p] = "fetching"
    /\ imagePc' = [imagePc EXCEPT ![p] = "failed"]
    /\ imageStatus' = [imageStatus EXCEPT ![p] = IF status # 0 THEN status ELSE 500]
    /\ UNCHANGED <<imageCalls, connVars, callVars, cacheVars, proxyVars, apiVars, fetchVars, chapterVars, fanVars>>

\* ------------------------------------------------------ getChapterList

\* Line 387: const limit = 100.
limit == 100

\* attributes.chapter: null, or the text of a decimal number with one digit
\* after the point.
NullChapter == [isNull |-> TRUE, whole |-> 0, tenth |-> 0]
ChapterText(whole, tenth) == [isNull |-> FALSE, whole |-> whole, tenth |-> tenth]

\* Lines 435-436: `chapter ? Number.parseFloat(chapter) : 0`, in tenths.
parseChapter(chapter) == IF chapter.isNull THEN 0 ELSE 10 * chapter.whole + chapter.tenth

\* The ways the feed numbers its n chapters: in the order asked for, in the
\* opposite order, and with shared numbers, half chapters and an
\* unnumbered one.
Numberings == {"descending", "ascending", "mixed"}

ChapterOf(i, n, numbering) ==
    IF numbering = "descending" THEN ChapterText(n + 1 - i, 0)
    ELSE IF numbering = "ascending" THEN ChapterText(i, 0)
    ELSE IF i = 1 THEN NullChapter
    ELSE ChapterText(i % 7, 5 * (i % 2))

Feed(n, numbering) == [i \in 1..n |-> [id |-> i, chapter |-> ChapterOf(i, n, numbering)]]

\* The response to a page request: `limit` chapters from `off` on, and total.
PageAt(off) == SubSeq(server, off + 1, Min(off + limit, Len(server)))

\* Line 415: Math.round((totalFetched / totalChapters) * 100).
RoundedPercent(fetched, total) == (200 * fetched + total) \div (2 * total)

\* Lines 433-440: sort by descending chapter number (Array.prototype.sort is
\* stable).
SortChapters(chapters) ==
    SortSeq(chapters, LAMBDA a, b : parseChapter(a.chapter) > parseChapter(b.chapter))

\* Line 443: new Map(all.map(c => [c.id, c])).values() keeps one chapter per
\* id, at the place of the first and with the value of the last.
UniqueById(chapters) ==
    LET n == Len(chapters)
        firsts == SelectSeq([i \in 1..n |-> i],
                            LAMBDA i : \A j \in 1..(i - 1) : chapters[j].id # chapters[i].id)
        last(id) == CHOOSE j \in 1..n :
                        /\ chapters[j].id = id
                        /\ \A m \in (j + 1)..n : chapters[m].id # id
    IN [k \in 1..Len(firsts) |-> chapters[last(chapters[firsts[k]].id)]]

\* A loop that only stops on a short page.
StopsOnShortPageOnly(pageLen, fetched, total) == pageLen < limit

\* Line 422: the loop ends on a short page or when the total is reached.
LastPage(pageLen, fetched, total) == pageLen < limit \/ fetched >= total

\* Lines 376-398 up to the first await of apiRequest.
ChapterListStart(callback) ==
    /\ chapPc = "idle"
    /\ chapPc' = "requesting"
    /\ hasCallback' = callback
    /\ offset' = 0
    /\ totalChapters' = 0
    /\ totalFetched' = 0
    /\ allChapters' = <<>>
    /\ pageRequests' = 1
    /\ UNCHANGED <<server, progress, uniqueChapters>>
    /\ UNCHANGED <<connVars, callVars, cacheVars, proxyVars, apiVars, fetchVars, imageVars, fanVars>>

\* Lines 400-430 and, after the last page, 433-451: a page arrived.
PageArrives ==
    /\ chapPc = "requesting"
    /\ LET chapters == PageAt(offset)
           total == IF offset = 0 THEN Len(server) ELSE totalChapters
           fetched == totalFetched + Len(chapters)
           all == allChapters \o chapters
       IN /\ totalChapters' = total
          /\ totalFetched' = fetched
          /\ allChapters' = all
          /\ progress' = IF hasCallback /\ total > 0
                          THEN Append(progress, Min(RoundedPercent(fetched, total), 100))
                          ELSE progress
          /\ IF LastPage(Len(chapters), fetched, total)
             THEN /\ chapPc' = "done"
                  /\ uniqueChapters' = UniqueById(SortChapters(all))
                  /\ UNCHANGED offset
             ELSE /\ chapPc' = "sleeping"
                  /\ offset' = offset + limit
                  /\ UNCHANGED uniqueChapters
    /\ UNCHANGED <<server, hasCallback, pageRequests>>
    /\ UNCHANGED <<connVars, callVars, cacheVars, proxyVars, apiVars, fetchVars, imageVars, fanVars>>

\* Line 429 and lines 393-398: the 300 ms pause ended and the next page is
\* requested.
NextPage ==
    /\ chapPc = "sleeping"
    /\ chapPc' = "requesting"
    /\ pageRequests' = pageRequests + 1
    /\ UNCHANGED <<server, hasCallback, offset, totalChapters, totalFetched, allChapters,
                   progress, uniqueChapters>>
    /\ UNCHANGED <<connVars, callVars, cacheVars, proxyVars, apiVars, fetchVars, imageVars, fanVars>>

\* ------------------------------------------------------ cover-art fan-out

\* A manga of the search response: its id and whether its relationships
\* hold one of type "cover_art" (line 935); manga i refers to cover i.
Manga(id, hasCover) == [id |-> id, hasCover |-> hasCover]

Batches ==
    UNION {[1..n -> BOOLEAN] : n \in 1..MaxRecords}

BaseOf(covers) == [i \in 1..Len(covers) |-> Manga(i, covers[i])]

\* Line 939: `cover_${coverRel.id}`.
coverCacheKey(manga) == <<"cover", manga.id>>

\* Line 889: `search_${query}_${limit}_${offset}`, for the one query made.
searchCacheKey == <<"search", 1>>

FanKeys == {<<"cover", i>> : i \in 1..MaxRecords} \cup {searchCacheKey}

\* The body of a /cover/{id} response: numbered by the cover, odd when it
\* carries data.attributes.
CoverData(id, attributes) == 2 * id + (IF attributes THEN 1 ELSE 0)

\* Line 968: coverData && coverData.data && coverData.data.attributes.
HasAttributes(coverData) == IsTruthy(coverData) /\ coverData % 2 = 1

\* A join that hands back the branches in the order they finished.
CompletionOrder(n, finished) == finished

\* Promise.all resolves with the values in the order of the promises.
JoinOrder(n, finished) == [i \in 1..n |-> i]

AllOf(n, value) == [i \in 1..n |-> value]

\* Lines 933-934: Promise.all(data.data.map(...)) is reached with the manga
\* of the response.
FanOutStart(covers) ==
    /\ fanPc = "idle"
    /\ fanPc' = "mapping"
    /\ records' = BaseOf(covers)
    /\ branch' = AllOf(Len(covers), "pending")
    /\ nextBranch' = 1
    /\ enriched' = AllOf(Len(covers), FALSE)
    /\ outcome' = AllOf(Len(covers), "none")
    /\ withAttributes' = AllOf(Len(covers), FALSE)
    /\ completed' = <<>>
    /\ mangaWithCovers' = <<>>
    /\ UNCHANGED <<connVars, callVars, cacheVars, proxyVars, apiVars, fetchVars, imageVars,
                   chapterVars>>

\* Lines 934-976 up to the await of axios: map calls the callback of the next
\* manga, which runs to its first await or to its end before the next
\* callback starts.
BranchStart ==
    /\ fanPc = "mapping"
    /\ LET i == nextBranch
           manga == records[i]
           cachedCover == GetResult(coverCacheKey(manga), "coverImage")
           ends(how, attrs) ==
               /\ branch' = [branch EXCEPT ![i] = "done"]
               /\ outcome' = [outcome EXCEPT ![i] = how]
               /\ withAttributes' = [withAttributes EXCEPT ![i] = attrs]
               /\ enriched' = [enriched EXCEPT ![i] = attrs]
               /\ completed' = Append(completed, i)
       IN /\ IF ~manga.hasCover
             THEN /\ ends("nocover", FALSE)
                  /\ UNCHANGED cacheVars
             ELSE /\ CacheGet(coverCacheKey(manga), "coverImage")
                  /\ IF IsTruthy(cachedCover)
                     THEN ends("cached", HasAttributes(cachedCover))
                     ELSE /\ branch' = [branch EXCEPT ![i] = "fetching"]
                          /\ UNCHANGED <<outcome, withAttributes, enriched, completed>>
          /\ nextBranch' = i + 1
          /\ fanPc' = IF i = Len(records) THEN "joining" ELSE "mapping"
    /\ UNCHANGED <<records, mangaWithCovers>>
    /\ UNCHANGED <<connVars, callVars, proxyVars, apiVars, fetchVars, imageVars, chapterVars>>

\* Lines 956-976: the cover request of manga i resolved.
CoverArrives(i, attributes) ==
    /\ fanPc = "joining"
    /\ i \in 1..Len(records)
    /\ branch[i] = "fetching"
    /\ CacheSet(coverCacheKey(records[i]), CoverData(records[i].id, attributes), "coverImage")
    /\ branch' = [branch EXCEPT ![i] = "done"]
    /\ outcome' = [outcome EXCEPT ![i] = "fetched"]
    /\ withAttributes' = [withAttributes EXCEPT ![i] = attributes]
    /\ enriched' = [enriched EXCEPT ![i] = HasAttributes(CoverData(records[i].id, attributes))]
    /\ completed' = Append(completed, i)
    /\ UNCHANGED <<fanPc, records, nextBranch, mangaWithCovers>>
    /\ UNCHANGED <<connVars, callVars, proxyVars, apiVars, fetchVars, imageVars, chapterVars>>

\* Lines 960-976: the cover request of manga i rejected; the error is logged.
CoverFails(i) ==
    /\ fanPc = "joining"
    /\ i \in 1..Len(records)
    /\ branch[i] = "fetching"
    /\ branch' = [branch EXCEPT ![i] = "done"]
    /\ outcome' = [outcome EXCEPT ![i] = "failed"]
    /\ completed' = Append(completed, i)
    /\ UNCHANGED <<fanPc, records, nextBranch, enriched, withAttributes, mangaWithCovers>>
    /\ UNCHANGED <<connVars, callVars, cacheVars, proxyVars, apiVars, fetchVars, imageVars,
                   chapterVars>>

\* Lines 978-990: every branch settled, Promise.all resolves and the result
\* is cached and returned.
FanOutJoins ==
    /\ fanPc = "joining"
    /\ \A i \in 1..Len(records) : branch[i] = "done"
    /\ LET order == JoinOrder(Len(records), completed)
           results == [k \in 1..Len(records) |->
                          [id |-> records[order[k]].id, enriched |-> enriched[order[k]]]]
       IN /\ mangaWithCovers' = results
          /\ CacheSet(searchCacheKey, results, "searchResults")
    /\ fanPc' = "returned"
    /\ UNCHANGED <<records, branch, nextBranch, enriched, outcome, withAttributes, completed>>
    /\ UNCHANGED <<connVars, callVars, proxyVars, apiVars, fetchVars, imageVars, chapterVars>>

\* ------------------------------------------------------ specifications

\* The cache as constructed, outside a browser, and never used.
CacheOff ==
    /\ memoryCache = <<>>
    /\ localStorage = <<>>
    /\ isBrowser = FALSE
    /\ now = 0
    /\ lastSet = [k \in CacheKeys |-> NoSet]
    /\ lastEvicted = {}
    /\ nSets = 0
    /\ nTicks = 0
    /\ nSweeps = 0
    /\ storageFails = FALSE
    /\ caught = FALSE
    /\ raised = FALSE

\* Line 58 of the proxy route: connectionManager.hasHttp2Failed(apiUrl), read
\* once, before retryWithBackoff is called.
HeadersForceHttp1(u) == u # NoUrl /\ getHostFromUrl(u) \in http2FailedHosts

ProxyOff == forceHttp1 = [p \in Calls |-> FALSE]

\* apiRequest has not been called.
FetchOff ==
    /\ fetchPc = "idle"
    /\ fetchReq = NoRequest
    /\ fetchCalls = 0
    /\ fetchResult = Absent
    /\ fetchError = NoError
    /\ upstreamError = NoError
    /\ fetchPrior = NoSet
    /\ fetchAt = 0
    /\ nFetches = 0

\* No concurrent apiRequest call has been made.
ApiOff ==
    /\ apiPc = [c \in ApiCalls |-> "idle"]
    /\ apiReq = [c \in ApiCalls |-> NoRequest]
    /\ apiCalls = [c \in ApiCalls |-> 0]
    /\ apiResult = [c \in ApiCalls |-> Absent]
    /\ apiMiss = [c \in ApiCalls |-> FALSE]
    /\ apiOverlap = [c \in ApiCalls |-> {}]
    /\ apiOrder = <<>>

\* No image has been requested.
ImageOff ==
    /\ imagePc = [p \in Callers |-> "idle"]
    /\ imageStatus = [p \in Callers |-> 0]
    /\ imageCalls = [p \in Callers |-> 0]

\* getChapterList has not been called.
ChapterIdle ==
    /\ chapPc = "idle"
    /\ hasCallback = FALSE
    /\ offset = 0
    /\ totalChapters = 0
    /\ totalFetched = 0
    /\ allChapters = <<>>
    /\ progress = <<>>
    /\ pageRequests = 0
    /\ uniqueChapters = <<>>

ChapterOff == server = <<>> /\ ChapterIdle

\* No search has run.
FanOff ==
    /\ fanPc = "idle"
    /\ records = <<>>
    /\ branch = <<>>
    /\ nextBranch = 1
    /\ enriched = <<>>
    /\ outcome = <<>>
    /\ withAttributes = <<>>
    /\ completed = <<>>
    /\ mangaWithCovers = <<>>

\* Nothing around the libraries is in use.
AppOff == ProxyOff /\ FetchOff /\ ApiOff /\ ImageOff /\ ChapterOff /\ FanOff

\* No retryWithBackoff call has been made.
CallsOff ==
    /\ config = [p \in Calls |-> DEFAULT_RETRY_OPTIONS]
    /\ url = [p \in Calls |-> NoUrl]
    /\ workFailures = [p \in Calls |-> {}]
    /\ pc = [p \in Calls |-> "off"]
    /\ attempt = [p \in Calls |-> 0]
    /\ useHttp1Fallback = [p \in Calls |-> FALSE]
    /\ hasRelease = [p \in Calls |-> FALSE]
    /\ lastError = [p \in Calls |-> NoError]
    /\ sleepMs = [p \in Calls |-> 0]
    /\ annotated = [p \in Calls |-> 0]
    /\ invocations = [p \in Calls |-> 0]
    /\ releaseCalls = [p \in Calls |-> 0]
    /\ prevBackoff = [p \in Calls |-> 0]
    /\ rejected = [p \in Calls |-> NoError]
    /\ nOrdinary = [p \in Calls |-> 0]
    /\ nRate = [p \in Calls |-> 0]
    /\ nHttp2 = [p \in Calls |-> 0]

InitConn ==
    /\ activeConnections = [h \in Hosts |-> 0]
    /\ connectionQueue = [h \in Hosts |-> <<>>]
    /\ http2FailedHosts = {}
    /\ slot = [w \in Clients |-> "none"]
    /\ slotHost = [w \in Clients |-> NoHost]
    /\ spentHosts = {}
    /\ waitOrder = [h \in Hosts |-> <<>>]
    /\ lastResumed = NoClient

Init == InitConn /\ CallsOff /\ CacheOff /\ AppOff

Next ==
    \/ \E c \in Callers, u \in Urls : CallerAcquire(c, u)
    \/ \E c \in Callers : CallerRelease(c)

Spec == Init /\ [][Next]_vars

\* Callers of one host; as long as slots are held, a holder calls its release
\* function some time (which is the least that holders who all release in the
\* end do).
NextOneHost ==
    \/ \E c \in Callers : CallerAcquire(c, "https://api.mangadex.org/manga")
    \/ \E c \in Callers : CallerRelease(c)

SomeRelease == \E c \in Callers : CallerRelease(c)

SpecReleasing == Init /\ [][NextOneHost]_vars /\ WF_vars(SomeRelease)

\* One retryWithBackoff call, with any merged options, with or without a url,
\* whose fn can reject with any error; nobody else uses the connection manager.
FirstCall == NumCallers + 1

InitRetry ==
    /\ activeConnections = [h \in Hosts |-> 0]
    /\ connectionQueue = [h \in Hosts |-> <<>>]
    /\ http2FailedHosts \in {{}, {"api.mangadex.org"}}
    /\ slot = [w \in Clients |-> "none"]
    /\ slotHost = [w \in Clients |-> NoHost]
    /\ spentHosts = {}
    /\ waitOrder = [h \in Hosts |-> <<>>]
    /\ lastResumed = NoClient
    /\ CacheOff
    /\ \E cfg \in MergedOptions, u \in {NoUrl, "https://api.mangadex.org/manga"} :
        /\ config = [p \in Calls |-> cfg]
        /\ url = [p \in Calls |-> u]
    /\ forceHttp1 = [p \in Calls |-> p = FirstCall /\ HeadersForceHttp1(url[p])]
    /\ FetchOff /\ ApiOff /\ ImageOff /\ ChapterOff /\ FanOff
    /\ workFailures = [p \in Calls |-> IF p = FirstCall THEN Failures ELSE {}]
    /\ pc = [p \in Calls |-> IF p = FirstCall THEN "top" ELSE "off"]
    /\ attempt = [p \in Calls |-> 0]
    /\ useHttp1Fallback = [p \in Calls |-> FALSE]
    /\ hasRelease = [p \in Calls |-> FALSE]
    /\ lastError = [p \in Calls |-> NoError]
    /\ sleepMs = [p \in Calls |-> 0]
    /\ annotated = [p \in Calls |-> 0]
    /\ invocations = [p \in Calls |-> 0]
    /\ releaseCalls = [p \in Calls |-> 0]
    /\ prevBackoff = [p \in Calls |-> 0]
    /\ rejected = [p \in Calls |-> NoError]
    /\ nOrdinary = [p \in Calls |-> 0]
    /\ nRate = [p \in Calls |-> 0]
    /\ nHttp2 = [p \in Calls |-> 0]

NextRetry ==
    \/ \E p \in Calls : LoopTop(p)
    \/ \E p \in Calls : StartWork(p)
    \/ \E p \in Calls : WorkSucceeds(p)
    \/ \E p \in Calls, error \in Failures :
            \E k \in JitterChoices(config[p]) : WorkFails(p, error, k)
    \/ \E p \in Calls : \E k \in JitterChoices(config[p]) : RateSleepDone(p, k)
    \/ \E p \in Calls : BackoffSleepDone(p)

SpecRetry == InitRetry /\ [][NextRetry]_vars

\* The failures retryWithBackoff tells apart: those lines 84-101 retry at
\* once (a protocol error of a call with a url), those lines 103-123 retry
\* after the rate-limit sleep, and the rest, which reach line 126.
IsProtocolFailure(error, u) == isHttp2Error(error) /\ u # NoUrl
IsRateFailure(error, u) == ~IsProtocolFailure(error, u) /\ isRateLimited(error)
IsOrdinaryFailure(error, u) == ~IsProtocolFailure(error, u) /\ ~isRateLimited(error)

\* What a work function that never succeeds rejects with: always ordinary
\* errors the policy retries, always rate-limit errors, or always protocol
\* errors.
FailureKinds(cfg, u) ==
    {{e \in Failures : IsOrdinaryFailure(e, u) /\ retryCondition(cfg.policy, e)},
     {e \in Failures : isRateLimited(e) /\ ~isHttp2Error(e)},
     {e \in Failures : isHttp2Error(e)}} \ {{}}

\* One retryWithBackoff call whose fn always rejects, with errors of one kind.
InitAlways ==
    /\ activeConnections = [h \in Hosts |-> 0]
    /\ connectionQueue = [h \in Hosts |-> <<>>]
    /\ http2FailedHosts \in {{}, {"api.mangadex.org"}}
    /\ slot = [w \in Clients |-> "none"]
    /\ slotHost = [w \in Clients |-> NoHost]
    /\ spentHosts = {}
    /\ waitOrder = [h \in Hosts |-> <<>>]
    /\ lastResumed = NoClient
    /\ CacheOff
    /\ \E cfg \in MergedOptions, u \in {NoUrl, "https://api.mangadex.org/manga"} :
        /\ config = [p \in Calls |-> cfg]
        /\ url = [p \in Calls |-> u]
        /\ \E kind \in FailureKinds(cfg, u) :
              workFailures = [p \in Calls |-> IF p = FirstCall THEN kind ELSE {}]
    /\ forceHttp1 = [p \in Calls |-> p = FirstCall /\ HeadersForceHttp1(url[p])]
    /\ FetchOff /\ ApiOff /\ ImageOff /\ ChapterOff /\ FanOff
    /\ pc = [p \in Calls |-> IF p = FirstCall THEN "top" ELSE "off"]
    /\ attempt = [p \in Calls |-> 0]
    /\ useHttp1Fallback = [p \in Calls |-> FALSE]
    /\ hasRelease = [p \in Calls |-> FALSE]
    /\ lastError = [p \in Calls |-> NoError]
    /\ sleepMs = [p \in Calls |-> 0]
    /\ annotated = [p \in Calls |-> 0]
    /\ invocations = [p \in Calls |-> 0]
    /\ releaseCalls = [p \in Calls |-> 0]
    /\ prevBackoff = [p \in Calls |-> 0]
    /\ rejected = [p \in Calls |-> NoError]
    /\ nOrdinary = [p \in Calls |-> 0]
    /\ nRate = [p \in Calls |-> 0]
    /\ nHttp2 = [p \in Calls |-> 0]

NextAlways ==
    \/ \E p \in Calls : LoopTop(p)
    \/ \E p \in Calls : StartWork(p)
    \/ \E p \in Calls, error \in Failures :
            \E k \in JitterChoices(config[p]) : WorkFails(p, error, k)
    \/ \E p \in Calls : \E k \in JitterChoices(config[p]) : RateSleepDone(p, k)
    \/ \E p \in Calls : BackoffSleepDone(p)

SpecAlways == InitAlways /\ [][NextAlways]_vars

\* Every retryWithBackoff call targets the API host while direct callers hold
\* all but one of its slots for the whole run: the calls queue behind each
\* other.
SlotFailures ==
    {createApiError(500),
     Err("RateLimitError", 429, FALSE, [kind |-> "num", n |-> 2]),
     Err("Error", 0, TRUE, NoRetryAfter)}

Holders == {c \in Callers : c < maxConnectionsPerHost}

InitSlots ==
    /\ activeConnections = [h \in Hosts |->
            IF h = "api.mangadex.org" THEN Cardinality(Holders) ELSE 0]
    /\ connectionQueue = [h \in Hosts |-> <<>>]
    /\ http2FailedHosts = {}
    /\ slot = [w \in Clients |-> IF w \in Holders THEN "held" ELSE "none"]
    /\ slotHost = [w \in Clients |-> IF w \in Holders THEN "api.mangadex.org" ELSE NoHost]
    /\ spentHosts = {}
    /\ waitOrder = [h \in Hosts |-> <<>>]
    /\ lastResumed = NoClient
    /\ CacheOff
    /\ AppOff
    /\ config = [p \in Calls |-> [DEFAULT_RETRY_OPTIONS EXCEPT !.maxRetries = 2, !.jitter = FALSE]]
    /\ url = [p \in Calls |-> "https://api.mangadex.org/manga"]
    /\ workFailures = [p \in Calls |-> SlotFailures]
    /\ pc = [p \in Calls |-> "top"]
    /\ attempt = [p \in Calls |-> 0]
    /\ useHttp1Fallback = [p \in Calls |-> FALSE]
    /\ hasRelease = [p \in Calls |-> FALSE]
    /\ lastError = [p \in Calls |-> NoError]
    /\ sleepMs = [p \in Calls |-> 0]
    /\ annotated = [p \in Calls |-> 0]
    /\ invocations = [p \in Calls |-> 0]
    /\ releaseCalls = [p \in Calls |-> 0]
    /\ prevBackoff = [p \in Calls |-> 0]
    /\ rejected = [p \in Calls |-> NoError]
    /\ nOrdinary = [p \in Calls |-> 0]
    /\ nRate = [p \in Calls |-> 0]
    /\ nHttp2 = [p \in Calls |-> 0]

NextSlots == NextRetry

SpecSlots == InitSlots /\ [][NextSlots]_vars

\* The cache of a browser tab or of the server, freshly constructed with an
\* empty localStorage, and a client that sets, gets and removes.
InitCache ==
    /\ InitConn
    /\ CallsOff
    /\ AppOff
    /\ memoryCache = <<>>
    /\ localStorage = <<>>
    /\ isBrowser \in BOOLEAN
    /\ now = 0
    /\ lastSet = [k \in CacheKeys |-> NoSet]
    /\ lastEvicted = {}
    /\ nSets = 0
    /\ nTicks = 0
    /\ nSweeps = 0
    /\ storageFails = FALSE
    /\ caught = FALSE
    /\ raised = FALSE

NextCache ==
    \/ \E key \in CacheKeys, type \in UsedTypes : SetCall(key, type)
    \/ \E key \in CacheKeys, type \in UsedTypes : GetCall(key, type)
    \/ \E key \in CacheKeys, type \in UsedTypes : RemoveCall(key, type)
    \/ \E t \in Instants : ClockTick(t)
    \/ SweepCall

SpecCache == InitCache /\ [][NextCache]_vars

\* A cache that holds as many search results as it may, set a millisecond
\* apart, under keys that start with "searchResults_" or, as the keys of
\* searchManga do (api.ts:889, 988), with "search_"; a client then sets more search results.
FullType == "searchResults"
KeyHeads == {"searchResults", "search"}
FullSize == DEFAULT_CACHE_CONFIG[FullType].maxSize
EvictKeys == {<<h, n>> : h \in KeyHeads, n \in 1..(FullSize + ExtraKeys)}
SetKeys == {k \in EvictKeys : k[2] = 1 \/ k[2] > FullSize}

Preloaded(h, n) ==
    Entry(<<h, n>>, n, n, n + DEFAULT_CACHE_CONFIG[FullType].ttl, FullType)

InitEvict ==
    /\ InitConn
    /\ CallsOff
    /\ AppOff
    /\ isBrowser \in BOOLEAN
    /\ \E h \in KeyHeads :
        /\ memoryCache = [n \in 1..FullSize |-> Preloaded(h, n)]
        /\ localStorage =
              IF isBrowser
              THEN [n \in 1..FullSize |->
                       [key |-> StorageKey(FullType, <<h, n>>),
                        text |-> JsonStringify(Preloaded(h, n))]]
              ELSE <<>>
        /\ lastSet = [k \in EvictKeys |->
                        IF k[1] = h /\ k[2] <= FullSize
                        THEN [type |-> FullType, data |-> k[2], at |-> k[2], written |-> TRUE]
                        ELSE NoSet]
    /\ now = FullSize
    /\ lastEvicted = {}
    /\ nSets = FullSize
    /\ nTicks = 0
    /\ nSweeps = 0
    /\ storageFails = FALSE
    /\ caught = FALSE
    /\ raised = FALSE

NextEvict ==
    \/ \E key \in SetKeys : SetMore(key, FullType)
    \/ \E t \in {now + 1} : ClockTick(t)

SpecEvict == InitEvict /\ [][NextEvict]_vars

\* A cache whose durable tier comes and goes, called with recognized and
\* unrecognized types.
FaultTypes == {"searchResults", "unknownType"}

InitFaulty ==
    /\ InitConn
    /\ CallsOff
    /\ AppOff
    /\ memoryCache = <<>>
    /\ localStorage = <<>>
    /\ isBrowser \in BOOLEAN
    /\ now = 0
    /\ lastSet = [k \in CacheKeys |-> NoSet]
    /\ lastEvicted = {}
    /\ nSets = 0
    /\ nTicks = 0
    /\ nSweeps = 0
    /\ storageFails = FALSE
    /\ caught = FALSE
    /\ raised = FALSE

NextFaulty ==
    \/ \E key \in CacheKeys, type \in FaultTypes : SetCall(key, type)
    \/ \E key \in CacheKeys, type \in FaultTypes : GetCall(key, type)
    \/ \E key \in CacheKeys, type \in FaultTypes : RemoveCall(key, type)
    \/ \E type \in FaultTypes \cup {NoType} : ClearCall(type)
    \/ SweepCall
    \/ StorageFlips

SpecFaulty == InitFaulty /\ [][NextFaulty]_vars

\* A client of apiRequest on an empty cache, in a browser or on the server.
InitFetch ==
    /\ InitConn
    /\ CallsOff
    /\ AppOff
    /\ memoryCache = <<>>
    /\ localStorage = <<>>
    /\ isBrowser \in BOOLEAN
    /\ now = 0
    /\ lastSet = [k \in FetchKeys |-> NoSet]
    /\ lastEvicted = {}
    /\ nSets = 0
    /\ nTicks = 0
    /\ nSweeps = 0
    /\ storageFails = FALSE
    /\ caught = FALSE
    /\ raised = FALSE

NextFetch ==
    \/ \E req \in Requests : FetchStart(req)
    \/ FetchResponds
    \/ \E error \in UpstreamErrors : FetchFails(error)
    \/ \E t \in Instants : ClockTick(t)

SpecFetch == InitFetch /\ [][NextFetch]_vars

\* Several apiRequest calls of one page at the same time, on an empty cache,
\* within the lifetime of what they cache.
NextConcurrent ==
    \/ \E c \in ApiCalls, req \in ConcurrentRequests : ApiStart(c, req)
    \/ \E c \in ApiCalls : ApiResponds(c)
    \/ \E c \in ApiCalls : ApiFails(c)

SpecConcurrent == InitFetch /\ [][NextConcurrent]_vars

\* Browsers loading the images of one page through the proxy.
NextImage ==
    \E p \in ImageClients :
        \/ ImageGet(p)
        \/ ImageResponds(p)
        \/ \E status \in ImageFailures : ImageFails(p, status)

SpecImage == Init /\ [][NextImage]_vars

\* One call of getChapterList against a feed of 1 to MaxItems chapters.
InitChapters ==
    /\ InitConn
    /\ CallsOff
    /\ CacheOff
    /\ ProxyOff /\ FetchOff /\ ApiOff /\ ImageOff /\ FanOff
    /\ server \in {Feed(n, numbering) : n \in 1..MaxItems, numbering \in Numberings}
    /\ ChapterIdle

NextChapters ==
    \/ \E callback \in BOOLEAN : ChapterListStart(callback)
    \/ PageArrives
    \/ NextPage

SpecChapters == InitChapters /\ [][NextChapters]_vars

\* The cover an earlier search fetched and cached for manga n.
CachedCover(n) ==
    Entry(<<"cover", n>>, CoverData(n, TRUE), 0, DEFAULT_CACHE_CONFIG["coverImage"].ttl,
          "coverImage")

\* A search, in a browser or on the server, with the covers of the first
\* few manga cached by earlier searches.
InitFan ==
    /\ InitConn
    /\ CallsOff
    /\ AppOff
    /\ isBrowser \in BOOLEAN
    /\ now = 0
    /\ \E c \in 0..MaxRecords :
        /\ memoryCache = [n \in 1..c |-> CachedCover(n)]
        /\ localStorage =
              IF isBrowser
              THEN [n \in 1..c |->
                       [key |-> StorageKey("coverImage", <<"cover", n>>),
                        text |-> JsonStringify(CachedCover(n))]]
              ELSE <<>>
        /\ lastSet = [k \in FanKeys |->
                         IF k[1] = "cover" /\ k[2] <= c
                         THEN [type |-> "coverImage", data |-> CoverData(k[2], TRUE),
                               at |-> 0, written |-> TRUE]
                         ELSE NoSet]
    /\ lastEvicted = {}
    /\ nSets = 0
    /\ nTicks = 0
    /\ nSweeps = 0
    /\ storageFails = FALSE
    /\ caught = FALSE
    /\ raised = FALSE

NextFan ==
    \/ \E covers \in Batches : FanOutStart(covers)
    \/ BranchStart
    \/ \E i \in 1..MaxRecords, attributes \in BOOLEAN : CoverArrives(i, attributes)
    \/ \E i \in 1..MaxRecords : CoverFails(i)
    \/ FanOutJoins

SpecFan == InitFan /\ [][NextFan]_vars

\* A client that only writes, in a browser or on the server, while time
\* passes and the sweep timer, where there is one, fires.
NextWriteOnly ==
    \/ \E key \in CacheKeys, type \in UsedTypes : SetCall(key, type)
    \/ \E t \in Instants : ClockTick(t)
    \/ SweepTimer

SpecWriteOnly == InitCache /\ [][NextWriteOnly]_vars /\ WF_vars(SweepTimer)

\* The same client in a browser.
InitBrowser == InitCache /\ isBrowser

SpecWriteOnlyBrowser == InitBrowser /\ [][NextWriteOnly]_vars /\ WF_vars(SweepTimer)

\* A client of the cache that also clears it, by type or as a whole.
NextClear ==
    \/ \E key \in CacheKeys, type \in UsedTypes : SetCall(key, type)
    \/ \E key \in CacheKeys, type \in UsedTypes : GetCall(key, type)
    \/ \E type \in UsedTypes \cup {NoType} : ClearCall(type)
    \/ \E t \in Instants : ClockTick(t)

SpecClear == InitCache /\ [][NextClear]_vars

\* A client that sets and gets while time passes.
NextLookup ==
    \/ \E key \in CacheKeys, type \in UsedTypes : SetCall(key, type)
    \/ \E key \in CacheKeys, type \in UsedTypes : GetCall(key, type)
    \/ \E t \in Instants : ClockTick(t)

SpecLookup == InitCache /\ [][NextLookup]_vars

NextDouble ==
    \/ \E c \in Callers, u \in Urls : CallerAcquire(c, u)
    \/ \E c \in Callers : CallerRelease(c)
    \/ \E h \in Hosts : ReleaseAgain(h)

SpecDouble == Init /\ [][NextDouble]_vars

\* Slots acquired and not yet released, per host.
Outstanding(h) == {w \in Clients : slot[w] = "held" /\ slotHost[w] = h}

\* C1: with every release function called once, no host ever has more than
\* maxConnectionsPerHost outstanding slots, and its counter stays in
\* 0..maxConnectionsPerHost.
AdmissionBound ==
    \A h \in Hosts :
        /\ Cardinality(Outstanding(h)) <= maxConnectionsPerHost
        /\ activeConnections[h] \in 0..maxConnectionsPerHost
        /\ activeConnections[h] = Cardinality(Outstanding(h))

\* A host is full, a caller waits for it, and slots have been released before.
AdmissionBoundWitness ==
    \E h \in Hosts :
        /\ activeConnections[h] = maxConnectionsPerHost
        /\ Len(connectionQueue[h]) > 0
        /\ h \in spentHosts

\* C2: calling a release function a second time changes neither the counters
\* nor the queues (no second decrement, no further waiter resumed).
ReleaseIdempotent ==
    [][(\E h \in Hosts : h \in spentHosts /\ h \notin spentHosts')
         => /\ activeConnections' = activeConnections
            /\ connectionQueue' = connectionQueue]_vars

\* C3: a waiter is resumed only when it is the one that has waited longest
\* for its host.
FifoFairness ==
    [][\A w \in Clients :
         (slot[w] = "queued" /\ slot'[w] = "held")
            => w = Head(waitOrder[slotHost[w]])]_vars

\* The last step resumed a waiter while a later arrival still waits.
FifoFairnessWitness ==
    /\ lastResumed # NoClient
    /\ slot[lastResumed] = "held"
    /\ Len(connectionQueue[slotHost[lastResumed]]) > 0

\* C4: a call that is not inside an attempt holds no slot, and the release
\* function of each attempt with a url has been called exactly once by the
\* time the attempt is over: before either sleep, before the next pass of the
\* loop, and before the call returns or throws. The host's counter equals the
\* slots outstanding.
OutsideAttempt == {"top", "sleepRate", "sleepBackoff", "returned", "thrown"}

SlotReleased ==
    /\ \A p \in Calls :
        /\ pc[p] \in {"acquiring", "running"} => releaseCalls[p] = 0
        /\ pc[p] \in OutsideAttempt =>
              /\ slot[p] = "none"
              /\ hasRelease[p] => releaseCalls[p] = 1
    /\ \A h \in Hosts : activeConnections[h] = Cardinality(Outstanding(h))

\* A call sleeps after a failed attempt whose slot went straight to another
\* call that was queued behind it.
SlotReleasedWitness ==
    \E p \in Calls, q \in Calls :
        /\ p # q
        /\ pc[p] \in {"sleepRate", "sleepBackoff"}
        /\ hasRelease[p] /\ releaseCalls[p] = 1
        /\ lastResumed = q /\ slot[q] = "held"

\* The ErrorKind of an error (api-error.ts:65-77 for the statuses).
ErrorKind(error) ==
    IF isHttp2Error(error) THEN "Protocol"
    ELSE IF error.cls = "TimeoutError" THEN "Timeout"
    ELSE IF error.cls = "NetworkError" \/ error.status = 0 THEN "Network"
    ELSE IF isRateLimited(error) THEN "RateLimited"
    ELSE IF error.status = 404 THEN "NotFound"
    ELSE IF error.status >= 500 THEN "ServerError"
    ELSE IF error.status >= 400 THEN "ClientError"
    ELSE "Unknown"

Failed(p) == nOrdinary[p] + nRate[p] + nHttp2[p]

RetriedClientError(p) ==
    /\ config[p].policy = "default"
    /\ lastError[p].cls \in ApiErrorClasses
    /\ lastError[p].status = 408

RetriesBounded ==
    \A p \in Calls :
        /\ invocations[p] <= config[p].maxRetries + 1
        /\ pc[p] \in {"returned", "thrown"} =>
              /\ invocations[p] >= 1
              /\ config[p].maxRetries = 0 => invocations[p] = 1

\* A call failed after maxRetries + 1 invocations, with rate-limited and
\* protocol failures among them.
RetriesBoundedWitness ==
    \E p \in Calls :
        /\ pc[p] = "thrown"
        /\ config[p].maxRetries >= 2
        /\ invocations[p] = config[p].maxRetries + 1
        /\ nRate[p] > 0 /\ nHttp2[p] > 0

\* C9: without jitter and with ordinary failures only, the delay before the
\* n-th retry is min(initialDelay * factor^(n-1), maxDelay), and it is no
\* shorter than the delay before.
BackoffFormula ==
    \A p \in Calls :
        (pc[p] = "sleepBackoff" /\ ~config[p].jitter /\ nRate[p] = 0 /\ nHttp2[p] = 0) =>
            /\ sleepMs[p] = Min(config[p].initialDelay * Pow(config[p].factor, nOrdinary[p] - 1),
                                config[p].maxDelay)
            /\ sleepMs[p] >= prevBackoff[p]

\* The third retry waits maxDelay, which is more than the second waited.
BackoffFormulaWitness ==
    \E p \in Calls :
        /\ pc[p] = "sleepBackoff" /\ ~config[p].jitter
        /\ nRate[p] = 0 /\ nHttp2[p] = 0 /\ nOrdinary[p] >= 2
        /\ config[p].initialDelay * Pow(config[p].factor, nOrdinary[p] - 1) > config[p].maxDelay
        /\ sleepMs[p] = config[p].maxDelay
        /\ prevBackoff[p] > 0 /\ prevBackoff[p] < sleepMs[p]

\* C10: the rate-limit sleep lasts retryAfter seconds, 5 seconds when
\* retryAfter is absent.
RateLimitWait ==
    \A p \in Calls :
        pc[p] = "sleepRate" =>
            sleepMs[p] = IF lastError[p].retryAfter.kind = "absent" THEN 5000
                         ELSE lastError[p].retryAfter.n * 1000

\* C5: while the latest set of a key, set(k, v, r) at time t, has not been
\* followed by a set, a remove or an eviction of k, get(k, r) returns v at
\* every time before t + ttl(r) and absent from t + ttl(r) on.
TtlInvariant ==
    \A k \in DOMAIN lastSet :
        lastSet[k].written =>
            GetResult(k, lastSet[k].type) =
                IF now < lastSet[k].at + ConfigFor(lastSet[k].type).ttl
                THEN lastSet[k].data
                ELSE Absent
\* The fast-tier entries written under a type.
WrittenUnder(type) == SelectSeq(memoryCache, LAMBDA e : e.type = type)

\* C6: the fast tier never holds more than maxSize(r) entries written under
\* r, and a set that evicts removes the oldest entries of its type by
\* timestamp, as many as bring the type back to maxSize(r).
EvictionBound ==
    /\ \A r \in CacheTypes : Len(WrittenUnder(r)) <= DEFAULT_CACHE_CONFIG[r].maxSize
    /\ \A e \in lastEvicted :
        /\ Len(WrittenUnder(e.type)) = DEFAULT_CACHE_CONFIG[e.type].maxSize
        /\ \A i \in 1..Len(memoryCache) :
              memoryCache[i].type = e.type => e.timestamp <= memoryCache[i].timestamp
\* C11: without jitter, the delay slept after an ordinary failure is
\* min(initialDelay * factor^(m-1), maxDelay) with m the ordinary failures of
\* the call so far, whatever rate-limited and protocol failures came before.
BackoffCountsOrdinaryOnly ==
    \A p \in Calls :
        (pc[p] = "sleepBackoff" /\ ~config[p].jitter) =>
            sleepMs[p] = Min(config[p].initialDelay * Pow(config[p].factor, nOrdinary[p] - 1),
                             config[p].maxDelay)
\* C16: an attempt of a call made for a url is under way only with the
\* HTTP/1.1 request headers when the host of the url is flagged
\* (one call at a time: the flag was there when the attempt started).
FallbackRequested ==
    \A p \in Calls :
        (pc[p] = "running" /\ url[p] # NoUrl
            /\ getHostFromUrl(url[p]) \in http2FailedHosts) => forceHttp1[p]

\* C17: the error a call throws is the one its last invocation of fn
\* rejected with, and the count written into it is the number of invocations.
ThrowsLastError ==
    \A p \in Calls :
        pc[p] = "thrown" =>
            /\ lastError[p] = rejected[p]
            /\ annotated[p] = invocations[p]

\* A call thrown after rate-limited, protocol and ordinary failures.
ThrowsLastErrorWitness ==
    \E p \in Calls :
        /\ pc[p] = "thrown"
        /\ nRate[p] > 0 /\ nHttp2[p] > 0 /\ nOrdinary[p] > 1
        /\ annotated[p] = 4
SweepComplete ==
    [][nSweeps' # nSweeps =>
         /\ \A i \in 1..Len(memoryCache') : ~Expired(memoryCache'[i], now)
         /\ \A i \in 1..Len(localStorage') :
                ~Expired(JsonParse(localStorage'[i].text, localStorage'[i].key[2],
                                   localStorage'[i].key[1]), now)
         /\ \A i \in 1..Len(memoryCache) :
                ~Expired(memoryCache[i], now) =>
                    \E j \in 1..Len(memoryCache') : memoryCache'[j] = memoryCache[i]
         /\ \A i \in 1..Len(localStorage) :
                ~Expired(JsonParse(localStorage[i].text, localStorage[i].key[2],
                                   localStorage[i].key[1]), now) =>
                    \E j \in 1..Len(localStorage') : localStorage'[j] = localStorage[i]]_vars
\* A cached fetch: a GET with a resource type and forceFresh = false.
CachedFetch(req) == req.method = "GET" /\ req.cacheType # NoType /\ ~req.forceFresh

\* C12: a cached fetch that found nothing stored for its key made exactly
\* one network call and, once answered, its payload is stored under
\* cacheKey(path, params, method) in the fast tier (and in the durable tier
\* of a browser); a cached fetch made within the TTL of the latest set of its
\* key under its type made no network call and returned that payload.
CachedFetchOnce ==
    /\ (CachedFetch(fetchReq) /\ fetchPc \in {"awaiting", "returned"} /\ ~fetchPrior.written) =>
          /\ fetchCalls = 1
          /\ (fetchPc = "returned" /\ now = fetchAt) =>
                /\ GetResult(cacheKey(fetchReq), fetchReq.cacheType) = fetchResult
                /\ Has(memoryCache, cacheKey(fetchReq))
                /\ isBrowser =>
                      Has(localStorage, StorageKey(fetchReq.cacheType, cacheKey(fetchReq)))
    /\ (CachedFetch(fetchReq) /\ fetchPc # "idle"
            /\ fetchPrior.written /\ fetchPrior.type = fetchReq.cacheType
            /\ fetchAt < fetchPrior.at + ConfigFor(fetchReq.cacheType).ttl) =>
          /\ fetchPc = "returned"
          /\ fetchCalls = 0
          /\ fetchResult = fetchPrior.data

\* The second of two identical cached fetches returned the payload of the
\* first, a millisecond before it expired, without a network call.
CachedFetchOnceWitness ==
    /\ CachedFetch(fetchReq) /\ fetchPc = "returned"
    /\ fetchPrior.written /\ fetchPrior.type = fetchReq.cacheType
    /\ fetchAt = fetchPrior.at + ConfigFor(fetchReq.cacheType).ttl - 1
    /\ fetchCalls = 0 /\ fetchResult = fetchPrior.data /\ nFetches = 2

\* C18: the error apiRequest throws has the ErrorKind, and the retryAfter,
\* of the error the upstream call produced.
PropagatesError ==
    fetchPc = "thrown" =>
        /\ ErrorKind(fetchError) = ErrorKind(upstreamError)
        /\ fetchError.retryAfter = upstreamError.retryAfter
\* C19: every image request in flight holds a connection slot of the image
\* host, at most maxConnectionsPerHost image requests are in flight to the
\* host, and a request that failed with a server error was tried again.
ImageThroughPipeline ==
    /\ \A p \in ImageClients :
          imagePc[p] = "fetching" =>
              slot[p] = "held" /\ slotHost[p] = getHostFromUrl(imageUrl)
    /\ Cardinality({p \in ImageClients : imagePc[p] = "fetching"}) <= maxConnectionsPerHost
    /\ \A p \in ImageClients :
          (imagePc[p] = "failed" /\ imageStatus[p] >= 500) => imageCalls[p] > 1
\* C13: the call makes at most ceil(N/100) page requests; once it returned
\* it made exactly that many, it handed the progress callback one value per
\* page, never decreasing and ending at 100, and it returned each of the N
\* chapters once, by descending chapter number.
PaginatedAccumulation ==
    LET n == Len(server)
        pages == (n + limit - 1) \div limit
    IN /\ pageRequests <= pages
       /\ chapPc = "done" =>
             /\ pageRequests = pages
             /\ hasCallback =>
                   /\ Len(progress) = pages
                   /\ \A k \in 1..(pages - 1) : progress[k] <= progress[k + 1]
                   /\ progress[pages] = 100
             /\ Len(uniqueChapters) = n
             /\ {uniqueChapters[k].id : k \in 1..n} = {server[i].id : i \in 1..n}
             /\ \A k \in 1..n : \E i \in 1..n : server[i] = uniqueChapters[k]
             /\ \A k \in 1..(n - 1) :
                   parseChapter(uniqueChapters[k].chapter)
                       >= parseChapter(uniqueChapters[k + 1].chapter)

\* The call returned a feed of exactly two full pages and a part of a third,
\* numbered with ties, after three requests.
PaginatedAccumulationWitness ==
    /\ chapPc = "done" /\ hasCallback
    /\ Len(server) > 2 * limit /\ Len(server) % limit # 0
    /\ pageRequests = 3 /\ progress[3] = 100 /\ progress[1] < progress[2]
    /\ server[1].chapter.isNull
    /\ Len(uniqueChapters) = Len(server)
\* The fan-out returned its N manga in input order.
ReturnsBatchInOrder ==
    /\ Len(mangaWithCovers) = Len(records)
    /\ \A i \in 1..Len(records) : mangaWithCovers[i].id = records[i].id

\* C14 as stated: the fan-out returns its N manga in input order, those
\* whose cover request failed in base form and every other one enriched.
FanOutEnrichesOthers ==
    fanPc = "returned" =>
        /\ ReturnsBatchInOrder
        /\ \A i \in 1..Len(records) :
              mangaWithCovers[i].enriched <=> outcome[i] # "failed"

\* C14, amended: the fan-out returns its N manga in input order; a manga is
\* enriched exactly when it has a cover_art relationship and its cover data,
\* cached or fetched, carries attributes, so one whose cover request failed
\* is in base form; and a failed branch leaves no branch unfinished.
FanOutEnrichesCovered ==
    /\ fanPc = "returned" =>
          /\ ReturnsBatchInOrder
          /\ \A i \in 1..Len(records) :
                /\ outcome[i] = "failed" => ~mangaWithCovers[i].enriched
                /\ mangaWithCovers[i].enriched <=>
                      /\ records[i].hasCover
                      /\ outcome[i] \in {"cached", "fetched"}
                      /\ withAttributes[i]
                /\ outcome[i] = "nocover" <=> ~records[i].hasCover
    /\ (fanPc = "joining" /\ \E i \in 1..Len(records) : outcome[i] = "failed") =>
          \/ ENABLED FanOutJoins
          \/ \E i \in 1..Len(records) : branch[i] = "fetching"

\* A batch of three came back with the second manga in base form after its
\* cover request failed first, and with the others enriched afterwards, the
\* third before the first.
FanOutWitness ==
    /\ fanPc = "returned" /\ Len(records) = 3
    /\ completed = <<2, 3, 1>>
    /\ outcome[2] = "failed" /\ ~mangaWithCovers[2].enriched
    /\ mangaWithCovers[1].enriched /\ mangaWithCovers[3].enriched
    /\ mangaWithCovers[1].id = 1 /\ mangaWithCovers[3].id = 3
\* The fast tier holds an expired entry under key.
ExpiredInMemory(key) == Has(memoryCache, key) /\ Expired(Lookup(memoryCache, key), now)

\* C21: an entry that is written and never read leaves the fast tier some
\* time after it expired, in a browser and on the server.
ExpiredEventuallyRemoved ==
    \A key \in CacheKeys : ExpiredInMemory(key) ~> ~ExpiredInMemory(key)
\* C22: after clear(r) get finds nothing under a key whose latest set was
\* under r and finds what it found before under every other type; after
\* clear() get finds nothing at all.
ClearExact ==
    [][\A r \in UsedTypes \cup {NoType} :
          CacheClear(r) =>
              \A key \in CacheKeys, type \in UsedTypes :
                  IF r = NoType \/ (r = type /\ lastSet[key].written /\ lastSet[key].type = r)
                  THEN GetResult(key, type)' = Absent
                  ELSE r # type /\ lastSet[key].written /\ lastSet[key].type = type =>
                           GetResult(key, type)' = GetResult(key, type)]_vars

\* The part of C22 about clear() alone: afterwards get finds nothing.
ClearAllExact ==
    [][CacheClear(NoType) =>
          \A key \in CacheKeys, type \in UsedTypes : GetResult(key, type)' = Absent]_vars
\* What a get that misses the fast tier returns.
DurableReturn ==
    \A key \in CacheKeys, type \in UsedTypes :
        (isBrowser /\ ~MemoryHit(key)) =>
            LET storageKey == StorageKey(type, key)
                item == ParsedItem(key, type)
            IN GetResult(key, type) =
                   IF Has(localStorage, storageKey) /\ item.expiresAt > now
                   THEN item.data
                   ELSE Absent

\* What a get that misses the fast tier does to the two tiers.
DurableEffects ==
    \A key \in CacheKeys, type \in UsedTypes :
        (CacheGet(key, type) /\ isBrowser /\ ~MemoryHit(key)) =>
            LET storageKey == StorageKey(type, key)
                item == ParsedItem(key, type)
            IN IF Has(localStorage, storageKey) /\ item.expiresAt > now
               THEN /\ Has(memoryCache', key)
                    /\ Lookup(memoryCache', key).data = item.data
                    /\ Lookup(memoryCache', key).timestamp = item.timestamp
                    /\ Lookup(memoryCache', key).expiresAt = item.expiresAt
                    /\ localStorage' = localStorage
               ELSE /\ ~Has(localStorage', storageKey)
                    /\ memoryCache' = memoryCache

\* C23: a get that misses the fast tier returns the durable entry when that
\* has not expired and copies it into the fast tier unchanged, deletes the
\* durable entry and returns absent when it has expired, and returns absent
\* when there is none.
DurableLookup == []DurableReturn /\ [][DurableEffects]_vars

\* The fast tier holds, after its own entry expired, an entry that is not
\* the latest set of its key: a get copied it from the durable tier, with
\* the lifetime it was written with.
DurableLookupWitness ==
    \E key \in CacheKeys :
        /\ isBrowser
        /\ lastSet[key].written
        /\ now >= lastSet[key].at + ConfigFor(lastSet[key].type).ttl
        /\ MemoryHit(key)
        /\ Lookup(memoryCache, key).type # lastSet[key].type
        /\ Lookup(memoryCache, key).timestamp < now
        /\ Lookup(memoryCache, key).expiresAt =
               Lookup(memoryCache, key).timestamp + ConfigFor(Lookup(memoryCache, key).type).ttl
        /\ Has(localStorage, StorageKey(Lookup(memoryCache, key).type, key))

\* An expired durable entry was deleted by a get: the latest set of a key is
\* in neither tier although nothing removed it.
DurableExpiredWitness ==
    \E key \in CacheKeys :
        /\ isBrowser
        /\ lastSet[key].written
        /\ now >= lastSet[key].at + ConfigFor(lastSet[key].type).ttl
        /\ ~Has(localStorage, StorageKey(lastSet[key].type, key))
        /\ nSweeps = 0
RetryableKinds == {"Network", "Timeout", "RateLimited", "ServerError"}
NonRetryableKinds == {"ClientError", "NotFound"}

\* The policy of a call agrees with the kind of the failure it was handed.
AgreesWithKind(policy, error) ==
    /\ ErrorKind(error) \in RetryableKinds => retryCondition(policy, error)
    /\ ErrorKind(error) \in NonRetryableKinds => ~retryCondition(policy, error)

NoBarging ==
    \A h \in Hosts :
        Len(connectionQueue[h]) > 0 =>
            /\ activeConnections[h] = maxConnectionsPerHost
            /\ ~UnderLimit(activeConnections[h])

\* A release handed its slot to the first queued caller while another caller
\* is still queued for the host.
NoBargingWitness ==
    \E h \in Hosts :
        /\ Len(connectionQueue[h]) > 0
        /\ lastResumed # NoClient
        /\ slot[lastResumed] = "held" /\ slotHost[lastResumed] = h
        /\ activeConnections[h] = maxConnectionsPerHost
\* C26: when every caller that holds a slot calls its release function in
\* the end, every caller queued for a host gets a slot in the end.
NoStarvation ==
    \A w \in Callers : (slot[w] = "queued") ~> (slot[w] = "held")

\* The last caller queued for a host was resumed: nobody waits for the host
\* any more and all its slots are taken.
NoStarvationWitness ==
    /\ lastResumed # NoClient
    /\ slot[lastResumed] = "held"
    /\ connectionQueue[slotHost[lastResumed]] = <<>>
    /\ waitOrder[slotHost[lastResumed]] = <<>>
    /\ activeConnections[slotHost[lastResumed]] = maxConnectionsPerHost

\* C27: resource types are separate namespaces: get(k, r2) never returns the
\* value that set(k, v, r1) stored under another type r1. Every set stores a
\* payload of its own, so the payload tells which set a value comes from.
TypesIsolated ==
    \A key \in CacheKeys, type \in UsedTypes :
        (lastSet[key].written /\ lastSet[key].type # type) =>
            GetResult(key, type) # lastSet[key].data

\* The second half of C27: a set or a remove on (k, r1) leaves what
\* get(k, r2) returns as it was.
WritesIsolated ==
    [][\A key \in CacheKeys, r1 \in UsedTypes, r2 \in UsedTypes :
          (r1 # r2 /\ (SetCall(key, r1) \/ RemoveCall(key, r1))) =>
              GetResult(key, r2)' = GetResult(key, r2)]_vars

\* C28: when the call gives up, a work function that always failed with an
\* ordinary retryable error was invoked maxRetries times (maxRetries >= 1),
\* one that always failed with a rate-limit error, or always with a protocol
\* error while a url was given, maxRetries + 1 times.
AttemptCountByKind ==
    \A p \in Calls :
        (pc[p] = "thrown" /\ workFailures[p] # {}) =>
            LET m == config[p].maxRetries
                all(Kind(_, _)) == \A e \in workFailures[p] : Kind(e, url[p])
                retryable == \A e \in workFailures[p] : retryCondition(config[p].policy, e)
            IN /\ (all(IsOrdinaryFailure) /\ retryable /\ m >= 1) => invocations[p] = m
               /\ all(IsRateFailure) => invocations[p] = m + 1
               /\ all(IsProtocolFailure) => invocations[p] = m + 1

\* A call with maxRetries of two or more gave up after ordinary failures only.
AttemptCountWitness ==
    \E p \in Calls :
        /\ pc[p] = "thrown"
        /\ \A e \in workFailures[p] :
              IsOrdinaryFailure(e, url[p]) /\ retryCondition(config[p].policy, e)
        /\ config[p].maxRetries >= 2
        /\ invocations[p] = config[p].maxRetries

\* The same after rate-limit failures only, and after protocol failures only.
AttemptCountRateWitness ==
    \E p \in Calls :
        /\ pc[p] = "thrown"
        /\ \A e \in workFailures[p] : IsRateFailure(e, url[p])
        /\ config[p].maxRetries >= 2
        /\ invocations[p] = config[p].maxRetries + 1

AttemptCountProtocolWitness ==
    \E p \in Calls :
        /\ pc[p] = "thrown"
        /\ \A e \in workFailures[p] : IsProtocolFailure(e, url[p])
        /\ config[p].maxRetries >= 2
        /\ invocations[p] = config[p].maxRetries + 1

\* C29: no sleep after the last attempt: every sleep of a call, after a
\* rate-limited failure as after any other, is followed by another attempt;
\* the call never raises the error at the end of a sleep.
NoSleepBeforeRaise ==
    [][\A p \in Calls :
          (pc[p] \in {"sleepRate", "sleepBackoff"} /\ pc'[p] # pc[p]) =>
              pc'[p] = "top"]_vars

\* The same as a condition on states: a call sleeps only while it may retry.
SleepsOnlyBeforeRetry ==
    \A p \in Calls :
        pc[p] \in {"sleepRate", "sleepBackoff"} => MayRetry(config[p], attempt[p])

\* Two calls ran at the same time: one started while the other was in flight.
Concurrent(c, d) == c # d /\ (d \in apiOverlap[c] \/ c \in apiOverlap[d])

\* The calls for a key whose responses were written to the cache, in the
\* order the responses arrived.
Writers(key) ==
    SelectSeq(apiOrder, LAMBDA c : cacheKey(apiReq[c]) = key /\ WritesCache(apiReq[c]))

\* Two calls that ran at the same time for one key the cache had nothing for.
SameUncachedKey(c, d) ==
    /\ Concurrent(c, d)
    /\ cacheKey(apiReq[c]) = cacheKey(apiReq[d])
    /\ apiMiss[c] /\ apiMiss[d]

\* C30: two concurrent apiRequest calls for the same uncached key each make
\* their own network call, and when the second response arrives, so that
\* both have completed, the cache holds the payload of that second response
\* and get returns it under the type of either call.
NoCoalescing ==
    [][\A c \in ApiCalls, d \in ApiCalls :
          /\ SameUncachedKey(c, d)' => (apiCalls[c] = 1 /\ apiCalls[d] = 1)'
          /\ (/\ SameUncachedKey(c, d)
              /\ apiPc[c] = "returned"
              /\ WritesCache(apiReq[c]) /\ WritesCache(apiReq[d])
              /\ ApiResponds(d)) =>
                 LET key == cacheKey(apiReq[d])
                 IN /\ Has(memoryCache', key)
                    /\ Lookup(memoryCache', key).data = ResponseData(d)
                    /\ GetResult(key, apiReq[d].cacheType)' = ResponseData(d)
                    /\ GetResult(key, apiReq[c].cacheType)' = ResponseData(d)]_vars

\* Two calls for the same uncached key overlapped, each got its own
\* response, and the cache holds the payload of the one that started first
\* and was answered last.
NoCoalescingWitness ==
    \E c \in ApiCalls, d \in ApiCalls :
        /\ d \in apiOverlap[c]
        /\ cacheKey(apiReq[c]) = cacheKey(apiReq[d])
        /\ apiMiss[c] /\ apiMiss[d]
        /\ ReadsCache(apiReq[c]) /\ ReadsCache(apiReq[d])
        /\ apiPc[c] = "returned" /\ apiPc[d] = "returned"
        /\ apiResult[c] = ResponseData(c) /\ apiResult[d] = ResponseData(d)
        /\ apiOrder = <<c, d>>
        /\ GetResult(cacheKey(apiReq[d]), apiReq[d].cacheType) = ResponseData(d)

====
